---------------------------- MODULE Spec2Model ----------------------------
(***************************************************************************)
(* State-machine model of the PTDBF pipeline: one capture manager          *)
(* (GestionDispositivos) that fans every audio block out to its            *)
(* subscribers PDG, DOA and Beamforming from the capture callback thread,  *)
(* while the main thread starts, stops, saves and polls.                   *)
(*                                                                         *)
(* Two threads are modelled: the capture thread running                    *)
(* audio_callback_central (cb_pc / cb_i give its position) and the main    *)
(* thread (main_pila is the list of the steps it still has to run).        *)
(* A step of one thread is atomic; steps are cut wherever the other        *)
(* thread can observe or disturb a shared field.                           *)
(*                                                                         *)
(* Units.  Angles are kept in quarter degrees (the DOA resolution is       *)
(* 0.25 degree, so angle_idx = int(angle_deg / 0.25) is the angle itself   *)
(* in this unit); angulo_grueso is kept in whole degrees as in the source. *)
(* A confidence is the exact decimal fraction n / 10^k.  The RMS of a      *)
(* block is kept in thousandths.  A beamformed signal is the record        *)
(* [blk, idx, factor]: factor times the output of apply_beamforming for    *)
(* block blk steered to table row idx.                                     *)
(***************************************************************************)
EXTENDS Integers, Sequences, FiniteSets, TLC

(* ------------------------------ bounds --------------------------------- *)

\* Number of blocks the capture stream delivers in one behaviour of the DOA
\* specification,
MaxBloques == 3
\* and in one behaviour of the dispatcher and of the integrated system.
MaxBloquesSistema == 2
\* Blocks delivered while the system is started and calibrated
MaxBloquesArranque == 2
\* Longest subscriber list agregar_suscriptor builds
MaxSuscriptores == 4

\* Coarse peaks (degrees) the drawn blocks can produce: both ends of the
\* grid, where the fine window is clipped.
GruesoSet == {0, 355}

\* Positions inside the fine window the drawn blocks can peak at.
FinoSet == {"primero", "ultimo"}

\* Raw confidences (peak - median) / (max - min + eps) of the drawn blocks.
ConfCrudas == { [n |-> 25, k |-> 2], [n |-> 5, k |-> 1] }

\* DC-removed RMS of the drawn blocks, in thousandths.
RmsSet == {0, 4, 5}

\* Arguments tried for cambiar_blocksize.
BlocksizeSet == {256, 1024, 300}

\* Status flags the stream can hand to the callback.
StatusSet == {"ninguno", "input_overflow", "input_underflow"}

\* Samples one call of calibrar_rapido collects at most.
MaxMuestras == 3

\* InputStream objects created and not yet closed, at most
MaxStreams == 2

\* Decimal places a confidence can reach in the endless runs (consecutive
\* decays the drawn blocks cause).
MaxDecimales == 3

\* Reference angles (angulo_real, quarter degrees) tried by the calibration.
RealSet == {0, 19, 660, 1400}

\* Reference angles the error formula is evaluated at on its own, some of
\* them outside [0, 360).
ReferenciaSet == {-360, 0, 19, 660, 1400, 2160}

\* Block lengths apply_beamforming is evaluated at on its own.
LongitudSet == {0, 1, 27, 28, 256, 300, 1024}

\* Blocks the channel combination is evaluated on: the sample every
\* microphone holds throughout the block, before the window.
AmplitudSet == { <<1, 1, 1, 1>>, <<3, -1, 2, 0>> }

\* Output samples of one block the channel combination is evaluated at.
MaxIndice == 5

\* Steering angles (quarter degrees) the channel combination is evaluated
\* at: every 15 degrees.
AngulosCombinacion == { q \in 0 .. 1439 : q % 60 = 0 }

(* ------------------------- program constants --------------------------- *)

ResolucionInv == 4            \* 1 / resolucion_grados
NumAngulos == 1440            \* len(self.angulos) = 360 / 0.25
PasoGrueso == 5               \* stride of the coarse search (degrees)
VentanaFina == 10             \* half width of the fine window (degrees)
UmbralRms == 4                \* rms > 0.004
FilasTablaBF == 360           \* rows of delays_precalculated
FactorAmplificacion == 30     \* factor_amplificacion
BlocksizeInicial == 1024      \* GestionDispositivos(blocksize=1024)
IndiceFrecMax == 211          \* FFT bin of the 3300 Hz strategic frequency
Canales == 6                  \* GestionDispositivos(channels=6)

Min(a, b) == IF a < b THEN a ELSE b
Max(a, b) == IF a > b THEN a ELSE b

(* ----------------------------- confidence ------------------------------ *)

Cero == [n |-> 0, k |-> 0]

RECURSIVE Norm(_)
Norm(c) ==
    IF c.n = 0 THEN Cero
    ELSE IF c.k > 0 /\ c.n % 10 = 0 THEN Norm([n |-> c.n \div 10, k |-> c.k - 1])
    ELSE c

\* c * m / 10  (confianza * 0.9, * 0.8, * 0.7)
Escalar(c, m) == Norm([n |-> c.n * m, k |-> c.k + 1])

\* c > num / den
MayorQue(c, num, den) == c.n * den > num * (10 ^ c.k)

\* a <= b
MenorIgual(a, b) == a.n * (10 ^ b.k) <= b.n * (10 ^ a.k)

\* np.clip(confianza, 0, 1)
Clip01(c) ==
    IF c.n < 0 THEN Cero
    ELSE IF c.n > 10 ^ c.k THEN [n |-> 1, k |-> 0]
    ELSE Norm(c)

EnUnidad(c) == 0 <= c.n /\ c.n <= 10 ^ c.k

(* --------------------------- DOA search grid --------------------------- *)

\* angulos_grueso = np.arange(0, 360, 5)
AngulosGrueso == { g \in 0..359 : g % PasoGrueso = 0 }

\* angle_idx = int(angulo_grados / self.resolucion_grados), coarse loop
IdxGrueso(g) == g * ResolucionInv

\* angulo_inicio = max(0, self.angulo_grueso - 10)
AnguloInicio(g) == Max(0, g - VentanaFina)

AnguloFinMal(g) == g + VentanaFina
\* angulo_fin = min(360, self.angulo_grueso + 10)
AnguloFin(g) == Min(360, g + VentanaFina)

\* indices_busqueda = np.arange(angulo_inicio, angulo_fin, 0.25), as the
\* quarter degrees it holds; angle_idx = int(angle_deg / 0.25) is the element.
IndicesBusqueda(g) ==
    (AnguloInicio(g) * ResolucionInv) .. (AnguloFin(g) * ResolucionInv - 1)

\* The candidate a drawn block peaks at inside the window of g.
Candidato(g, pos) ==
    CASE pos = "primero" -> AnguloInicio(g) * ResolucionInv
      [] pos = "ultimo"  -> AnguloFin(g) * ResolucionInv - 1

\* Table rows read by one call of srp_phat_optimizado.
IndicesGruesos == { IdxGrueso(g) : g \in AngulosGrueso }

(* ------------------------------ beamformer ----------------------------- *)

\* int(round(angle_deg)): Python rounds halves to the even integer.
RoundHalfEven(q) ==
    LET d == q \div ResolucionInv
        r == q % ResolucionInv
    IN  IF 2 * r < ResolucionInv THEN d
        ELSE IF 2 * r > ResolucionInv THEN d + 1
        ELSE IF d % 2 = 0 THEN d ELSE d + 1

\* calculate_delays: angle_idx = int(round(angle_deg)) % 360
CalculateDelaysIdx(q) == RoundHalfEven(q) % FilasTablaBF

\* apply_beamforming(mic_data, angle_deg): the signal of that block steered
\* to the table row of angle_deg.
ApplyBeamforming(bloque, q) ==
    [blk |-> bloque.id, idx |-> CalculateDelaysIdx(q), factor |-> 1]

\* beamformed * factor_amplificacion
Amplificar(s) == [s EXCEPT !.factor = s.factor * FactorAmplificacion]

GuardableMal(beamformed, amplificado) == amplificado
\* What recibir_audio appends to full_beamformed_audio: beamformed.copy()
Guardable(beamformed, amplificado) == beamformed

(* --------------------------- array geometry ---------------------------- *)

\* Lengths are in units of 1e-8 m: the radius 0.0325 m is 325 units of
\* 1e-4 m and a cosine is kept as its value times 10^4, rounded.  A delay is
\* kept as the distance sound travels in it, in the same unit, so that one
\* sample at 16 kHz and 343 m/s is DistanciaPorMuestra.  With this precision
\* the quantized table below equals the one numpy computes in floating
\* point, row by row.
Radio == 325                  \* self.radio = 0.0325
VelocidadSonido == 343        \* self.sound_speed
FrecuenciaMuestreo == 16000   \* self.sample_rate
DistanciaPorMuestra ==
    (VelocidadSonido * 1000000) \div (FrecuenciaMuestreo \div 100)

\* 10^4 * cos(d degrees), d = 0..90
CosTabla ==
    << 10000, 9998, 9994, 9986, 9976, 9962, 9945, 9925, 9903, 9877,
       9848, 9816, 9781, 9744, 9703, 9659, 9613, 9563, 9511, 9455,
       9397, 9336, 9272, 9205, 9135, 9063, 8988, 8910, 8829, 8746,
       8660, 8572, 8480, 8387, 8290, 8192, 8090, 7986, 7880, 7771,
       7660, 7547, 7431, 7314, 7193, 7071, 6947, 6820, 6691, 6561,
       6428, 6293, 6157, 6018, 5878, 5736, 5592, 5446, 5299, 5150,
       5000, 4848, 4695, 4540, 4384, 4226, 4067, 3907, 3746, 3584,
       3420, 3256, 3090, 2924, 2756, 2588, 2419, 2250, 2079, 1908,
       1736, 1564, 1392, 1219, 1045, 872, 698, 523, 349, 175,
       0 >>

\* 10^4 * np.cos(np.deg2rad(deg))
Cos4(deg) ==
    LET d == deg % 360
    IN  IF d <= 90 THEN CosTabla[d + 1]
        ELSE IF d <= 180 THEN -CosTabla[180 - d + 1]
        ELSE IF d <= 270 THEN -CosTabla[d - 180 + 1]
        ELSE CosTabla[360 - d + 1]

\* 10^4 * np.sin(np.deg2rad(deg))
Sin4(deg) == Cos4(deg + 270)

Mics == 1 .. 4

\* self.mic_positions / self.posiciones, in radii
PosicionesMic == << <<-1, 0>>, <<0, -1>>, <<1, 0>>, <<0, 1>> >>

\* np.dot(position[mic], direction(deg))
Distancia(mic, deg) ==
    Radio * (PosicionesMic[mic][1] * Cos4(deg) + PosicionesMic[mic][2] * Sin4(deg))

MinFila(fila) == CHOOSE m \in {fila[i] : i \in Mics} :
                     \A i \in Mics : m <= fila[i]
MaxFila(fila) == CHOOSE m \in {fila[i] : i \in Mics} :
                     \A i \in Mics : m >= fila[i]

NormalizarFilaMal(fila) == fila
\* delays[angle_deg] -= np.min(delays[angle_deg])
NormalizarFila(fila) == [i \in Mics |-> fila[i] - MinFila(fila)]

\* BeamformingSystem._precalculate_all_delays, row angle_deg before its
\* normalization: delays[angle_deg, mic] = -distance / self.sound_speed,
\* times sound_speed.
DelaysSinNormalizar(deg) == [mic \in Mics |-> -Distancia(mic, deg)]

\* BeamformingSystem._precalculate_all_delays, row angle_deg:
\* delays[angle_deg, mic] = -distance / self.sound_speed, then normalized.
DelaysPrecalculated(deg) ==
    NormalizarFila(DelaysSinNormalizar(deg))

\* np.round(x): the nearest integer, halves to the even one (num / den)
RedondearDiv(num, den) ==
    LET q == num \div den
        r == num % den
    IN  IF 2 * r < den THEN q
        ELSE IF 2 * r > den THEN q + 1
        ELSE IF q % 2 = 0 THEN q ELSE q + 1

\* delay_samples = np.round(delays * self.sample_rate).astype(int)
DelaySamples(fila) ==
    [mic \in Mics |-> RedondearDiv(fila[mic], DistanciaPorMuestra)]

\* padlen of signal.filtfilt for the 9-coefficient band-pass: 3 * 9; filtfilt
\* raises ValueError unless the signal is longer.
PadLen == 27

LongitudTruncadaMal(salida, n) == salida
\* beamformed_signal[:len(audio_ventaneado)]
LongitudTruncada(salida, n) == Min(salida, n)

\* Number of samples apply_beamforming returns for a block of n samples
\* steered to angle q (quarter degrees), or the ValueError of filtfilt.
LongitudBeamformed(n, q) ==
    LET delay_samples == DelaySamples(DelaysPrecalculated(CalculateDelaysIdx(q)))
        output_length == n + MaxFila(delay_samples)
        sin_filtrar == LongitudTruncada(output_length, n)
    IN  IF sin_filtrar <= PadLen
        THEN [error |-> TRUE, longitud |-> 0]
        ELSE [error |-> FALSE, longitud |-> sin_filtrar]

(* ------------------------------ capture -------------------------------- *)

Suscriptores0Mal == <<"PDG", "BF", "DOA">>
\* Registration order of SistemaIntegrado.__init__: PDG, DOA, Beamforming.
Suscriptores0 == <<"PDG", "DOA", "BF">>

ContarOverflowMal(c, st) == IF st = "input_overflow" THEN 1 ELSE c
\* if status: if status.input_overflow: self.overflow_counter += 1
ContarOverflow(c, st) == IF st = "input_overflow" THEN c + 1 ELSE c

\* fft_positiva has blocksize // 2 rows; calcular_potencia_angulo indexes it
\* with indices computed for a 1024-sample block and raises IndexError on a
\* shorter one.
DoaLanzaIndexError(bloque) == IndiceFrecMax >= bloque.size \div 2

NoBloque == [id |-> 0, size |-> 0, rms |-> 0]

(* ----------------------------- calibration ----------------------------- *)

\* Angles of the calibration are quarter degrees (180 degrees = 720); the
\* median of an even number of errors can fall between two of them, so
\* error_mediano and the offset are kept in eighths of a degree.
MediaVuelta == 720
UmbralCalibracion == 16       \* abs(error_mediano) > 2

ErrorAngularMal(angulo, real) == angulo - real
\* error = (angulo - angulo_real + 180) % 360 - 180
ErrorAngular(angulo, real) ==
    ((angulo - real + MediaVuelta) % (2 * MediaVuelta)) - MediaVuelta

\* errores, in the order of the samples
Errores(angulos, real) ==
    [i \in DOMAIN angulos |-> ErrorAngular(angulos[i], real)]

RECURSIVE Insertar(_, _)
Insertar(x, ord) ==
    IF ord = << >> THEN <<x>>
    ELSE IF x <= Head(ord) THEN <<x>> \o ord
    ELSE <<Head(ord)>> \o Insertar(x, Tail(ord))

RECURSIVE Ordenar(_)
Ordenar(sec) ==
    IF sec = << >> THEN << >> ELSE Insertar(Head(sec), Ordenar(Tail(sec)))

\* np.median(errores) of a non-empty list, in eighths of a degree
Mediana(sec) ==
    LET ord == Ordenar(sec)
        n == Len(ord)
    IN  IF n % 2 = 1 THEN 2 * ord[(n + 1) \div 2]
        ELSE ord[n \div 2] + ord[n \div 2 + 1]

Abs(x) == IF x < 0 THEN -x ELSE x

\* ultima_lectura: what the last call of get_angulo_actual returned, as long
\* as the DOA has written nothing since ("valida", and "repetida" from the
\* second such call on); "leyendo" while the first such call is between its
\* two loads; "sin" otherwise.
SinLectura == [estado |-> "sin", par |-> <<0, Cero>>]

SinOffset == [definido |-> FALSE, valor |-> 0]
SinRetorno == [estado |-> "sin", valor |-> 0]
RetornoNone == [estado |-> "none", valor |-> 0]

OffsetCalibradoSigno(angulos, real, offset) ==
    IF angulos = << >> THEN offset
    ELSE [definido |-> TRUE,
          valor |-> IF Abs(Mediana(Errores(angulos, real))) > UmbralCalibracion
                    THEN Mediana(Errores(angulos, real)) ELSE 0]
OffsetCalibradoVacio(angulos, real, offset) ==
    IF angulos = << >> THEN [definido |-> TRUE, valor |-> 0]
    ELSE [definido |-> TRUE,
          valor |-> IF Abs(Mediana(Errores(angulos, real))) > UmbralCalibracion
                    THEN -Mediana(Errores(angulos, real)) ELSE 0]
\* What calibrar_rapido leaves in self.doa.offset_calibracion once the
\* collection is over: untouched without samples, -error_mediano when
\* abs(error_mediano) > 2, else 0.
OffsetCalibrado(angulos, real, offset) ==
    IF angulos = << >> THEN offset
    ELSE [definido |-> TRUE,
          valor |-> IF Abs(Mediana(Errores(angulos, real))) > UmbralCalibracion
                    THEN -Mediana(Errores(angulos, real)) ELSE 0]

\* What calibrar_rapido returns once the collection is over.
RetornoCalibrado(angulos, real) ==
    IF angulos = << >> THEN RetornoNone
    ELSE [estado |-> "valor",
          valor |-> IF Abs(Mediana(Errores(angulos, real))) > UmbralCalibracion
                    THEN -Mediana(Errores(angulos, real)) ELSE 0]

(* ------------------- SRP-PHAT power of a plane wave -------------------- *)

\* Directions of arrival of the synthesized plane waves, in quarter degrees
Theta0Set == {120, 548, 720, 1420}

\* self.indices_frecuencias: the bins of frecs_positivas[k] = k * 16000 / 1024
\* nearest to 350, 500, 700, 900, 1200, 1500, 1800, 2200, 2600, 3000 and
\* 3300 Hz
IndicesFrecuencias == <<22, 32, 45, 58, 77, 96, 115, 141, 166, 192, 211>>

\* self.pares_mic, microphones numbered from 1
ParesMic == << <<1, 2>>, <<2, 3>>, <<3, 4>>, <<4, 1>>, <<1, 3>>, <<2, 4>> >>

\* 10^4 * np.cos of c hundredths of a degree (linear between whole degrees)
CosCenti(c) ==
    LET y == c % 36000
        g == y \div 100
        r == y % 100
    IN  RedondearDiv(Cos4(g) * (100 - r) + Cos4(g + 1) * r, 100)

\* 10^4 * np.sin of c hundredths of a degree
SinCenti(c) == CosCenti(c + 27000)

\* distancia = np.dot(self.posiciones[mic], direccion) for the table row q
\* (a quarter-degree index), in 1e-8 m: delays[q, mic] * sound_speed
DistanciaDoa(mic, q) ==
    Radio * (PosicionesMic[mic][1] * CosCenti(q * 25)
             + PosicionesMic[mic][2] * SinCenti(q * 25))

\* tau = self.delays[angle_idx, mic1] - self.delays[angle_idx, mic2],
\* times sound_speed
\* DOA.delays_precalculados, row q: delays[i, mic] = distancia /
\* self.sound_speed, times sound_speed.
DelaysPrecalculados(q) == [mic \in Mics |-> DistanciaDoa(mic, q)]

Tau(q, mic1, mic2) == DistanciaDoa(mic1, q) - DistanciaDoa(mic2, q)

\* fase_esperada = 2 * np.pi * frec * tau in hundredths of a degree, for the
\* bin k: 36000 * (k * 16000 / 1024) * tau / 343 with tau in 1e-8 m, which
\* is k * tau * 9 / (343 * 1600)
FaseEsperada(k, tau) ==
    RedondearDiv(RedondearDiv(tau * 9, VelocidadSonido) * k, 1600)

\* The plane wave from theta0: microphone mic hears the source signal
\* delayed by -(position . direction(theta0)) / sound_speed (times
\* sound_speed here).
RetardoOnda(mic, theta0) == -DistanciaDoa(mic, theta0)

\* Phase of cross = X1 * np.conj(X2) at the bin k for that wave: each
\* channel's spectrum is the source's turned by -2 pi f delay.
FaseCruzada(k, theta0, mic1, mic2) ==
    FaseEsperada(k, -(RetardoOnda(mic1, theta0) - RetardoOnda(mic2, theta0)))

\* The pair and the bin of the i-th turn of the double loop of
\* calcular_potencia_angulo, i = 1 .. 66
ParDeTermino(i) == ParesMic[((i - 1) \div Len(IndicesFrecuencias)) + 1]
BinDeTermino(i) == IndicesFrecuencias[((i - 1) % Len(IndicesFrecuencias)) + 1]
NumTerminos == Len(ParesMic) * Len(IndicesFrecuencias)

\* fft_positiva of the block of the wave from theta0, as the phases of
\* X1 * np.conj(X2) the loop reads
FasesCruzadas(theta0) ==
    [ i \in 1 .. NumTerminos |->
        FaseCruzada(BinDeTermino(i), theta0, ParDeTermino(i)[1],
                    ParDeTermino(i)[2]) ]

\* np.real(cross_phat * np.exp(1j * fase_esperada)), in 1e-4
TerminoPotencia(cruzadas, angle_idx, i) ==
    CosCenti(cruzadas[i]
             + FaseEsperada(BinDeTermino(i),
                            Tau(angle_idx, ParDeTermino(i)[1],
                                ParDeTermino(i)[2])))

RECURSIVE SumaTerminos(_, _, _)
SumaTerminos(cruzadas, angle_idx, i) ==
    IF i = 0 THEN 0
    ELSE TerminoPotencia(cruzadas, angle_idx, i)
         + SumaTerminos(cruzadas, angle_idx, i - 1)

\* DOA.calcular_potencia_angulo(fft_positiva, angle_idx), in 1e-4
CalcularPotenciaAngulo(cruzadas, angle_idx) ==
    SumaTerminos(cruzadas, angle_idx, NumTerminos)

\* np.argmax: the first index of the largest element
RECURSIVE ArgMaxDesde(_, _, _)
ArgMaxDesde(sec, i, mejor) ==
    IF i > Len(sec) THEN mejor
    ELSE ArgMaxDesde(sec, i + 1, IF sec[i] > sec[mejor] THEN i ELSE mejor)

ArgMax(sec) == ArgMaxDesde(sec, 2, 1)

\* confianza = (pots[max_idx_local] - np.median(pots)) /
\*             (np.max(pots) - np.min(pots) + 1e-12), then np.clip(.., 0, 1);
\* three decimals
ConfianzaPots(pots) ==
    LET ord == Ordenar(pots)
        n   == Len(ord)
        med == IF n % 2 = 1 THEN 2 * ord[(n + 1) \div 2]
               ELSE ord[n \div 2] + ord[n \div 2 + 1]
        den == ord[n] - ord[1]
    IN  IF den = 0 THEN Cero
        ELSE Clip01([n |-> ((2 * ord[n] - med) * 500) \div den, k |-> 3])

\* srp_phat_optimizado: max_idx_grueso = np.argmax(pots_grueso);
\* self.angulo_grueso = angulos_grueso[max_idx_grueso]
AnguloGrueso(pots_grueso) == (ArgMax(pots_grueso) - 1) * PasoGrueso

\* srp_phat_optimizado after the fine loop, the published pair being
\* (ang, conf): (angulo_estimado, confianza), the angle in quarter degrees
Estimacion(pots, inicio, ang, conf) ==
    IF pots[ArgMax(pots)] > 0
    THEN [angulo |-> inicio + ArgMax(pots) - 1,
          confianza |-> ConfianzaPots(pots)]
    ELSE [angulo |-> ang, confianza |-> Escalar(conf, 7)]

\* DOA.calcular_doa on an audible block (rms > 0.004) whose search returned
\* srp, the published pair being (ang, conf)
PublicaTrasSrp(srp, ang, conf) ==
    IF MayorQue(srp.confianza, 25, 100)
    THEN <<srp.angulo, srp.confianza>>
    ELSE <<ang, Escalar(conf, 9)>>

(* ------------------- beamformer: channel combination ------------------- *)

\* 10^4 * np.hanning(n)[i] = 0.5 - 0.5 * cos(2 pi i / (n - 1)); np.hanning(1)
\* is [1.]
Hanning(i, n) ==
    IF n = 1 THEN 10000
    ELSE (10000 - CosCenti(RedondearDiv(36000 * i, n - 1))) \div 2

\* audio_ventaneado[i, mic] of the block that holds amp[mic] throughout
AudioVentaneado(amp, n, i, mic) == amp[mic] * Hanning(i, n)

\* aligned_signals[idx, mic]: the windowed channel moved by its delay, zero
\* where it has no sample (the assignment is skipped when end_idx exceeds
\* output_length)
AlignedSignal(amp, n, delay_samples, idx, mic) ==
    IF /\ delay_samples[mic] + n <= n + MaxFila(delay_samples)
       /\ delay_samples[mic] <= idx
       /\ idx < delay_samples[mic] + n
    THEN AudioVentaneado(amp, n, idx - delay_samples[mic], mic)
    ELSE 0

\* Channels that hold a sample at idx
Contribuyen(n, delay_samples, idx) ==
    { mic \in Mics : delay_samples[mic] <= idx /\ idx < delay_samples[mic] + n }

\* beamformed_signal = np.sum(aligned_signals, axis=1) / 4.0, then
\* [:len(audio_ventaneado)]: the samples idx = 0 .. MaxIndice - 1 of it, each
\* as the sum and the number it is divided by
BeamformedSignal(amp, n, q) ==
    LET delay_samples == DelaySamples(DelaysPrecalculated(CalculateDelaysIdx(q)))
    IN  [ k \in 1 .. Min(MaxIndice, LongitudTruncada(n + MaxFila(delay_samples), n)) |->
            [suma |-> AlignedSignal(amp, n, delay_samples, k - 1, 1)
                      + AlignedSignal(amp, n, delay_samples, k - 1, 2)
                      + AlignedSignal(amp, n, delay_samples, k - 1, 3)
                      + AlignedSignal(amp, n, delay_samples, k - 1, 4),
             divisor |-> Cardinality(Mics),
             contribuyen |->
                 Cardinality(Contribuyen(n, delay_samples, k - 1))] ]

VARIABLES
    \* GestionDispositivos
    is_recording, stream, stream_blocksize, blocksize, suscriptores,
    overflow_counter,
    \* capture thread inside audio_callback_central
    cb_pc, cb_i, cb_bloque, cb_conf, nbloques,
    \* MicrophoneArrayRealtime (PDG)
    pdg_running, pdg_buffer,
    \* DOA
    doa_is_active, angulo_actual, confianza, fase_gruesa, angulo_grueso,
    \* BeamformingSystem
    bf_is_active, bf_is_processing, current_angle, canal0_buffer,
    beamformed_buffer, full_beamformed_audio, filtro_zi, archivos,
    \* main thread
    main_pila, audio_data, lectura_ang, lectura,
    \* observers of the callback in flight (read by no guard)
    cb_overflow, cb_despachado, cb_recibidos, cb_excepciones, cb_doa_activo,
    cb_doa_hecho, cb_indices, cb_tras_doa, cb_tras_bf, cb_tras_cap,
    \* observers of the run (read by no guard)
    doa_parado, bf_parado, cap_parada, guardado_fallo, bf_salida, agregados,
    doa_publicado, validos, ultima_lectura, cb_crudo, hist_iguales, cb_piso,
    \* CalibradorDOA.calibrar_rapido (main thread) and the attribute it sets
    offset_calibracion, cal_real, cal_angulos, cal_retorno, cal_cancelada,
    \* InputStreams created and not closed
    streams_abiertos,
    \* last call of a function checked on its own: [op, ent, sal]
    f_res,
    \* SistemaIntegrado.sistema_activo
    sistema_activo,
    \* the calls suscriptor(indata.copy()) of the callback in flight, and the
    \* subscriber list when its dispatch began
    cb_invocados, cb_registrados

gestionVars == <<is_recording, stream, stream_blocksize, blocksize,
                 suscriptores, overflow_counter>>
cbVars == <<cb_pc, cb_i, cb_bloque, cb_conf, nbloques>>
pdgVars == <<pdg_running, pdg_buffer>>
doaVars == <<doa_is_active, angulo_actual, confianza, fase_gruesa,
             angulo_grueso>>
bfVars == <<bf_is_active, bf_is_processing, current_angle, canal0_buffer,
            beamformed_buffer, full_beamformed_audio, filtro_zi, archivos>>
mainVars == <<main_pila, audio_data, lectura_ang, lectura>>
cbHist == <<cb_overflow, cb_despachado, cb_recibidos, cb_excepciones,
            cb_doa_activo, cb_doa_hecho, cb_indices, cb_tras_doa, cb_tras_bf,
            cb_tras_cap>>
histVars == <<doa_parado, bf_parado, cap_parada, guardado_fallo, bf_salida,
              agregados, doa_publicado, validos>>

obsVars == <<ultima_lectura, cb_crudo, hist_iguales, cb_piso>>
calVars == <<offset_calibracion, cal_real, cal_angulos, cal_retorno,
             cal_cancelada>>

vars == <<gestionVars, cbVars, pdgVars, doaVars, bfVars, mainVars, cbHist,
          histVars, obsVars, calVars, streams_abiertos, f_res, sistema_activo,
          cb_invocados, cb_registrados>>

\* State after SistemaIntegrado.__init__ (a device was found).
Init ==
    /\ is_recording = FALSE
    /\ stream = "none"
    /\ stream_blocksize = 0
    /\ blocksize = BlocksizeInicial
    /\ suscriptores = Suscriptores0
    /\ overflow_counter = 0
    /\ cb_pc = "idle"
    /\ cb_i = 0
    /\ cb_bloque = NoBloque
    /\ cb_conf = Cero
    /\ nbloques = 0
    /\ pdg_running = TRUE
    /\ pdg_buffer = << >>
    /\ doa_is_active = FALSE
    /\ angulo_actual = 0
    /\ confianza = Cero
    /\ fase_gruesa = FALSE
    /\ angulo_grueso = 0
    /\ bf_is_active = FALSE
    /\ bf_is_processing = FALSE
    /\ current_angle = 0
    /\ canal0_buffer = << >>
    /\ beamformed_buffer = << >>
    /\ full_beamformed_audio = << >>
    /\ filtro_zi = "None"
    /\ archivos = << >>
    /\ main_pila = << >>
    /\ audio_data = << >>
    /\ lectura_ang = 0
    /\ lectura = << >>
    /\ cb_overflow = FALSE
    /\ cb_despachado = FALSE
    /\ cb_recibidos = {}
    /\ cb_excepciones = {}
    /\ cb_doa_activo = FALSE
    /\ cb_doa_hecho = FALSE
    /\ cb_indices = {}
    /\ cb_tras_doa = FALSE
    /\ cb_tras_bf = FALSE
    /\ cb_tras_cap = FALSE
    /\ doa_parado = FALSE
    /\ bf_parado = FALSE
    /\ cap_parada = FALSE
    /\ guardado_fallo = FALSE
    /\ bf_salida = << >>
    /\ agregados = {}
    /\ doa_publicado = <<0, Cero>>
    /\ validos = {}
    /\ ultima_lectura = SinLectura
    /\ cb_piso = FALSE
    /\ cb_crudo = 0
    /\ hist_iguales = 0
    /\ offset_calibracion = SinOffset
    /\ cal_real = 0
    /\ cal_angulos = << >>
    /\ cal_retorno = SinRetorno
    /\ cal_cancelada = FALSE
    /\ streams_abiertos = 0
    /\ f_res = [op |-> "ninguna"]
    /\ sistema_activo = FALSE
    /\ cb_invocados = << >>
    /\ cb_registrados = << >>

(* ---------------------- DOA: srp_phat_optimizado ----------------------- *)

TrasPisoGruesoMal(conf) == [n |-> 5, k |-> 1]
\* return self.angulo_actual, self.confianza * 0.8
TrasPisoGrueso(conf) == Escalar(conf, 8)

\* confianza = self.confianza * 0.7
TrasPisoFino(conf) == Escalar(conf, 7)

\* Outcomes of the fine search around coarse peak g.  conPiso says whether
\* max(pots) <= 1e-12 can happen: it cannot in a block whose coarse search has
\* just found a peak >= 1e-10 at g, because g is one of the fine candidates.
BusquedaFina(g, conPiso, ang, conf, gruesos) ==
    { [angulo |-> Candidato(g, pos), confianza |-> Clip01(cr),
       fase |-> ~reinicio, grueso |-> g, piso |-> FALSE,
       indices |-> gruesos \cup IndicesBusqueda(g)] :
         pos \in FinoSet, cr \in ConfCrudas, reinicio \in BOOLEAN }
    \cup
    IF conPiso
    THEN { [angulo |-> ang, confianza |-> TrasPisoFino(conf), fase |-> FALSE,
            grueso |-> g, piso |-> TRUE,
            indices |-> gruesos \cup IndicesBusqueda(g)] }
    ELSE {}

\* srp_phat_optimizado on a block with energy: every (angle, confidence) it
\* can return, with the fase_gruesa / angulo_grueso it leaves behind, the
\* rows of self.delays it has read and whether the maximum power was below
\* the floor (piso).
SrpPhatOptimizado(fase, grueso, ang, conf) ==
    IF ~fase
    THEN UNION { BusquedaFina(g, FALSE, ang, conf, IndicesGruesos) :
                   g \in GruesoSet }
         \cup
         \* np.max(pots_grueso) < 1e-10
         { [angulo |-> ang, confianza |-> TrasPisoGrueso(conf), fase |-> FALSE,
            grueso |-> g, piso |-> TRUE, indices |-> IndicesGruesos] :
              g \in GruesoSet }
    ELSE BusquedaFina(grueso, TRUE, ang, conf, {})

ConfianzaSilencioMal(c) == Escalar(c, 9)
\* else branch of the activity gate: self.confianza = 0
ConfianzaSilencio(c) == Cero

(* --------------------- capture thread: the callback -------------------- *)

\* After subscriber i has returned: the next one, or the end of the callback.
Avanzar(i) ==
    IF i < Len(suscriptores) THEN <<"sub", i + 1>> ELSE <<"fin", 0>>

TrasExcepcionMal(i) == <<"fin", 0>>
\* except Exception as e: print(...) inside the for loop: the loop goes on.
TrasExcepcion(i) == Avanzar(i)

Sigue(par) ==
    /\ cb_pc' = par[1]
    /\ cb_i' = par[2]

CopiaMal(n) == 0
\* indata.copy(): the n-th call of the loop gets the n-th new array.
Copia(n) == n

\* suscriptor(indata.copy()): one more call in the dispatch in flight.
Invocado(sus) ==
    /\ cb_invocados' = Append(cb_invocados,
                              [sus |-> sus,
                               copia |-> Copia(Len(cb_invocados) + 1)])
    /\ UNCHANGED cb_registrados

\* audio_callback_central up to the first subscriber.  estados are the
\* PortAudio status flags the environment can hand in, tope the number of
\* blocks of the run.
CallbackInicio(estados, tope) ==
    /\ cb_pc = "idle"
    /\ stream = "activo"
    /\ nbloques < tope
    /\ \E rms \in RmsSet, st \in estados :
         /\ cb_bloque' = [id |-> nbloques + 1, size |-> stream_blocksize,
                          rms |-> rms]
         /\ overflow_counter' = ContarOverflow(overflow_counter, st)
         /\ cb_overflow' = (st = "input_overflow")
    /\ nbloques' = nbloques + 1
    /\ Sigue(IF is_recording THEN Avanzar(0) ELSE <<"fin", 0>>)
    /\ cb_despachado' = is_recording
    /\ cb_doa_activo' = doa_is_active
    /\ cb_tras_doa' = doa_parado
    /\ cb_tras_bf' = bf_parado
    /\ cb_tras_cap' = cap_parada
    /\ UNCHANGED <<is_recording, stream, stream_blocksize, blocksize,
                   suscriptores, cb_conf>>
    /\ UNCHANGED <<cb_recibidos, cb_excepciones, cb_doa_hecho, cb_indices>>
    /\ UNCHANGED <<pdgVars, doaVars, bfVars, mainVars, histVars>>
    /\ UNCHANGED <<obsVars, calVars, streams_abiertos, f_res, sistema_activo>>
    /\ cb_invocados' = << >>
    /\ cb_registrados' = IF is_recording THEN suscriptores ELSE << >>

\* audio_callback_central after the loop: the lock is released, the
\* processing time is measured and the callback returns.
CallbackFin ==
    /\ cb_pc = "fin"
    /\ cb_pc' = "idle"
    /\ cb_bloque' = NoBloque
    /\ cb_overflow' = FALSE
    /\ cb_despachado' = FALSE
    /\ cb_recibidos' = {}
    /\ cb_excepciones' = {}
    /\ cb_doa_activo' = FALSE
    /\ cb_doa_hecho' = FALSE
    /\ cb_indices' = {}
    /\ cb_tras_doa' = FALSE
    /\ cb_tras_bf' = FALSE
    /\ cb_tras_cap' = FALSE
    /\ UNCHANGED <<cb_i, cb_conf, nbloques>>
    /\ UNCHANGED <<gestionVars, pdgVars, doaVars, bfVars, mainVars, histVars>>
    /\ UNCHANGED <<obsVars, calVars, streams_abiertos, f_res, sistema_activo>>
    /\ cb_invocados' = << >>
    /\ cb_registrados' = << >>

\* MicrophoneArrayRealtime.recibir_audio.  It has no try of its own: a
\* failure while copying or appending the block reaches the callback's except;
\* fallos says whether the environment lets that happen.
RecibirAudioPDG(fallos) ==
    /\ cb_pc = "sub"
    /\ suscriptores[cb_i] = "PDG"
    /\ cb_recibidos' = cb_recibidos \cup {"PDG"}
    /\ \/ /\ pdg_running
          /\ pdg_buffer' = Append(pdg_buffer, cb_bloque.id)
          /\ Sigue(Avanzar(cb_i))
          /\ UNCHANGED cb_excepciones
       \/ /\ pdg_running
          /\ fallos
          /\ cb_excepciones' = cb_excepciones \cup {"PDG"}
          /\ Sigue(TrasExcepcion(cb_i))
          /\ UNCHANGED pdg_buffer
       \/ /\ ~pdg_running
          /\ Sigue(Avanzar(cb_i))
          /\ UNCHANGED <<pdg_buffer, cb_excepciones>>
    /\ UNCHANGED <<cb_bloque, cb_conf, nbloques, pdg_running>>
    /\ UNCHANGED <<cb_overflow, cb_despachado, cb_doa_activo, cb_doa_hecho,
                   cb_indices, cb_tras_doa, cb_tras_bf, cb_tras_cap>>
    /\ UNCHANGED <<gestionVars, doaVars, bfVars, mainVars, histVars>>
    /\ UNCHANGED <<obsVars, calVars, streams_abiertos, f_res, sistema_activo>>
    /\ Invocado("PDG")

Esta(etq) == IF main_pila = << >> THEN FALSE ELSE Head(main_pila) = etq

\* A call of get_angulo_actual begins.
LecturaEmpieza ==
    IF ultima_lectura.estado = "sin" /\ cb_pc # "doa_conf"
    THEN [ultima_lectura EXCEPT !.estado = "leyendo"]
    ELSE ultima_lectura

\* hist_iguales: how many raw angles of confident blocks there have been
\* since the DOA was started, as long as they were all equal (counted up to
\* 2); -1 once two of them differed.
EmpujaCrudo(crudo) ==
    IF hist_iguales = 0 THEN 1
    ELSE IF hist_iguales > 0 /\ crudo = cb_crudo THEN Min(hist_iguales + 1, 2)
    ELSE -1

\* The pair a finished block update leaves published, for the readers that
\* are inside get_angulo_actual at that moment.
Publica(par) ==
    /\ doa_publicado' = par
    /\ validos' = IF Esta("leer_confianza") THEN validos \cup {par} ELSE validos

\* DOA.recibir_audio -> calcular_doa, up to the first write another thread
\* can see.  In the confident branch self.angulo_actual is written here and
\* self.confianza in the next step.
RecibirAudioDOA ==
    /\ cb_pc = "sub"
    /\ suscriptores[cb_i] = "DOA"
    /\ cb_recibidos' = cb_recibidos \cup {"DOA"}
    /\ \/ \* not active: the block is ignored
          /\ ~doa_is_active
          /\ cb_piso' = FALSE
          /\ Sigue(Avanzar(cb_i))
          /\ UNCHANGED <<doaVars, cb_conf, cb_excepciones, cb_doa_hecho,
                         cb_indices, doa_publicado, validos, ultima_lectura,
                         cb_crudo, hist_iguales>>
       \/ \* rms <= 0.004
          /\ doa_is_active
          /\ cb_bloque.rms <= UmbralRms
          /\ confianza' = ConfianzaSilencio(confianza)
          /\ fase_gruesa' = FALSE
          /\ cb_doa_hecho' = TRUE
          /\ Publica(<<angulo_actual, confianza'>>)
          /\ ultima_lectura' = SinLectura
          /\ cb_piso' = FALSE
          /\ Sigue(Avanzar(cb_i))
          /\ UNCHANGED <<cb_crudo, hist_iguales>>
          /\ UNCHANGED <<doa_is_active, angulo_actual, angulo_grueso,
                         cb_indices, cb_conf, cb_excepciones>>
       \/ \* the frame is too short for the precomputed bins: IndexError,
          \* caught by calcular_doa's except before anything was assigned
          /\ doa_is_active
          /\ cb_bloque.rms > UmbralRms
          /\ DoaLanzaIndexError(cb_bloque)
          /\ cb_excepciones' = cb_excepciones \cup {"DOA"}
          /\ cb_doa_hecho' = TRUE
          /\ cb_indices' = IF fase_gruesa
                           THEN {AnguloInicio(angulo_grueso) * ResolucionInv}
                           ELSE {IdxGrueso(0)}
          /\ cb_piso' = FALSE
          /\ Sigue(Avanzar(cb_i))
          /\ UNCHANGED <<doaVars, cb_conf, doa_publicado, validos,
                         ultima_lectura, cb_crudo, hist_iguales>>
       \/ /\ doa_is_active
          /\ cb_bloque.rms > UmbralRms
          /\ ~DoaLanzaIndexError(cb_bloque)
          /\ \E r \in SrpPhatOptimizado(fase_gruesa, angulo_grueso,
                                        angulo_actual, confianza) :
               /\ fase_gruesa' = r.fase
               /\ angulo_grueso' = r.grueso
               /\ cb_indices' = r.indices
               /\ cb_piso' = r.piso
               /\ IF MayorQue(r.confianza, 25, 100)
                  THEN /\ angulo_actual' = r.angulo
                       /\ cb_crudo' = r.angulo
                       /\ hist_iguales' = EmpujaCrudo(r.angulo)
                       /\ cb_conf' = r.confianza
                       /\ Sigue(<<"doa_conf", cb_i>>)
                       /\ UNCHANGED <<confianza, cb_doa_hecho, doa_publicado,
                                      validos>>
                  ELSE /\ confianza' = Escalar(confianza, 9)
                       /\ cb_doa_hecho' = TRUE
                       /\ Publica(<<angulo_actual, confianza'>>)
                       /\ Sigue(Avanzar(cb_i))
                       /\ UNCHANGED <<angulo_actual, cb_conf, cb_crudo,
                                      hist_iguales>>
          /\ ultima_lectura' = SinLectura
          /\ UNCHANGED <<doa_is_active, cb_excepciones>>
    /\ UNCHANGED <<cb_bloque, nbloques>>
    /\ UNCHANGED <<cb_overflow, cb_despachado, cb_doa_activo, cb_tras_doa,
                   cb_tras_bf, cb_tras_cap>>
    /\ UNCHANGED <<doa_parado, bf_parado, cap_parada, guardado_fallo,
                   bf_salida, agregados>>
    /\ UNCHANGED <<gestionVars, pdgVars, bfVars, mainVars>>
    /\ UNCHANGED <<calVars, streams_abiertos, f_res, sistema_activo>>
    /\ Invocado("DOA")

\* calcular_doa, second write of the confident branch: self.confianza.
EscribirConfianza ==
    /\ cb_pc = "doa_conf"
    /\ confianza' = cb_conf
    /\ cb_conf' = Cero
    /\ cb_doa_hecho' = TRUE
    /\ Publica(<<angulo_actual, cb_conf>>)
    /\ Sigue(Avanzar(cb_i))
    /\ UNCHANGED <<doa_is_active, angulo_actual, fase_gruesa, angulo_grueso>>
    /\ UNCHANGED <<cb_bloque, nbloques>>
    /\ UNCHANGED <<cb_overflow, cb_despachado, cb_recibidos, cb_excepciones,
                   cb_doa_activo, cb_indices, cb_tras_doa, cb_tras_bf,
                   cb_tras_cap>>
    /\ UNCHANGED <<doa_parado, bf_parado, cap_parada, guardado_fallo,
                   bf_salida, agregados>>
    /\ UNCHANGED <<gestionVars, pdgVars, bfVars, mainVars>>
    /\ ultima_lectura' = SinLectura
    /\ UNCHANGED <<cb_crudo, hist_iguales, cb_piso, calVars, streams_abiertos, f_res, sistema_activo,
                   cb_invocados, cb_registrados>>

\* BeamformingSystem.recibir_audio: the guard.
RecibirAudioBF ==
    /\ cb_pc = "sub"
    /\ suscriptores[cb_i] = "BF"
    /\ cb_recibidos' = cb_recibidos \cup {"BF"}
    /\ IF bf_is_active /\ bf_is_processing /\ Canales >= 6
       THEN Sigue(<<"bf_proc", cb_i>>)
       ELSE Sigue(Avanzar(cb_i))
    /\ UNCHANGED <<cb_bloque, cb_conf, nbloques>>
    /\ UNCHANGED <<cb_overflow, cb_despachado, cb_excepciones, cb_doa_activo,
                   cb_doa_hecho, cb_indices, cb_tras_doa, cb_tras_bf,
                   cb_tras_cap>>
    /\ UNCHANGED <<gestionVars, pdgVars, doaVars, bfVars, mainVars, histVars>>
    /\ UNCHANGED <<obsVars, calVars, streams_abiertos, f_res, sistema_activo>>
    /\ Invocado("BF")

\* BeamformingSystem.recibir_audio: the body of the try.  An exception in
\* apply_beamforming leaves canal0_buffer and current_angle updated and is
\* caught by the method's own except.
ProcesarBF ==
    /\ cb_pc = "bf_proc"
    /\ canal0_buffer' = Append(canal0_buffer, cb_bloque.id)
    /\ current_angle' = angulo_actual
    /\ \/ LET beamformed == ApplyBeamforming(cb_bloque, angulo_actual)
              amplificado == Amplificar(beamformed)
              guardado == Guardable(beamformed, amplificado)
          IN  /\ beamformed_buffer' = Append(beamformed_buffer, amplificado)
              /\ full_beamformed_audio' =
                   Append(full_beamformed_audio, guardado)
              /\ bf_salida' = [b \in DOMAIN bf_salida \cup {cb_bloque.id} |->
                                 IF b = cb_bloque.id THEN beamformed
                                 ELSE bf_salida[b]]
              /\ agregados' = agregados \cup {guardado}
              /\ UNCHANGED cb_excepciones
       \/ /\ cb_excepciones' = cb_excepciones \cup {"BF"}
          /\ UNCHANGED <<beamformed_buffer, full_beamformed_audio, bf_salida,
                         agregados>>
    /\ Sigue(Avanzar(cb_i))
    /\ UNCHANGED <<bf_is_active, bf_is_processing, filtro_zi, archivos>>
    /\ UNCHANGED <<cb_bloque, cb_conf, nbloques>>
    /\ UNCHANGED <<cb_overflow, cb_despachado, cb_recibidos, cb_doa_activo,
                   cb_doa_hecho, cb_indices, cb_tras_doa, cb_tras_bf,
                   cb_tras_cap>>
    /\ UNCHANGED <<doa_parado, bf_parado, cap_parada, guardado_fallo,
                   doa_publicado, validos>>
    /\ UNCHANGED <<gestionVars, pdgVars, doaVars, mainVars>>
    /\ UNCHANGED <<obsVars, calVars, streams_abiertos, f_res, sistema_activo,
                   cb_invocados, cb_registrados>>

(* ----------------------------- main thread ----------------------------- *)

\* The main thread is free (it can call anything) or has a list of steps to
\* run; an operation that other operations call is entered either way.
Puede(etq) == IF main_pila = << >> THEN TRUE ELSE Head(main_pila) = etq
Resto == IF main_pila = << >> THEN << >> ELSE Tail(main_pila)

BlocksizesValidos == {256, 512, 1024, 2048}

\* GestionDispositivos.iniciar_captura (the InputStream is created and
\* started; a second call while recording returns at once).
IniciarCaptura ==
    /\ Puede("iniciar_captura")
    /\ main_pila' = Resto
    /\ IF is_recording
       THEN UNCHANGED <<stream, stream_blocksize, is_recording, cap_parada,
                        cb_tras_cap, streams_abiertos>>
       ELSE /\ streams_abiertos < MaxStreams
            /\ streams_abiertos' = streams_abiertos + 1
            /\ stream' = "activo"
            /\ stream_blocksize' = blocksize
            /\ is_recording' = TRUE
            /\ cap_parada' = FALSE
            /\ cb_tras_cap' = FALSE
    /\ UNCHANGED <<blocksize, suscriptores, overflow_counter>>
    /\ UNCHANGED <<cb_overflow, cb_despachado, cb_recibidos, cb_excepciones,
                   cb_doa_activo, cb_doa_hecho, cb_indices, cb_tras_doa,
                   cb_tras_bf>>
    /\ UNCHANGED <<doa_parado, bf_parado, guardado_fallo, bf_salida,
                   agregados, doa_publicado, validos>>
    /\ UNCHANGED <<cbVars, pdgVars, doaVars, bfVars>>
    /\ UNCHANGED <<audio_data, lectura_ang, lectura>>
    /\ UNCHANGED <<obsVars, calVars, f_res, sistema_activo,
                   cb_invocados, cb_registrados>>

\* GestionDispositivos.pausar_captura.  stream.stop() returns once the
\* callback in flight has returned.
PausarCaptura ==
    /\ main_pila = << >>
    /\ stream # "none" /\ is_recording
    /\ cb_pc = "idle"
    /\ stream' = "parado"
    /\ is_recording' = FALSE
    /\ cap_parada' = TRUE
    /\ UNCHANGED <<stream_blocksize, blocksize, suscriptores,
                   overflow_counter>>
    /\ UNCHANGED <<doa_parado, bf_parado, guardado_fallo, bf_salida,
                   agregados, doa_publicado, validos>>
    /\ UNCHANGED <<cbVars, pdgVars, doaVars, bfVars, mainVars, cbHist>>
    /\ UNCHANGED <<obsVars, calVars, streams_abiertos, f_res, sistema_activo,
                   cb_invocados, cb_registrados>>

\* GestionDispositivos.reanudar_captura: self.stream.start() ...
ReanudarCaptura ==
    /\ main_pila = << >>
    /\ stream # "none" /\ ~is_recording
    /\ stream' = "activo"
    /\ main_pila' = <<"reanudar_flag">>
    /\ UNCHANGED <<is_recording, stream_blocksize, blocksize, suscriptores,
                   overflow_counter>>
    /\ UNCHANGED <<audio_data, lectura_ang, lectura>>
    /\ UNCHANGED <<cbVars, pdgVars, doaVars, bfVars, cbHist, histVars>>
    /\ UNCHANGED <<obsVars, calVars, streams_abiertos, f_res, sistema_activo,
                   cb_invocados, cb_registrados>>

\* ... then self.is_recording = True
ReanudarFlag ==
    /\ Esta("reanudar_flag")
    /\ main_pila' = Resto
    /\ is_recording' = TRUE
    /\ cap_parada' = FALSE
    /\ cb_tras_cap' = FALSE
    /\ UNCHANGED <<stream, stream_blocksize, blocksize, suscriptores,
                   overflow_counter>>
    /\ UNCHANGED <<audio_data, lectura_ang, lectura>>
    /\ UNCHANGED <<cb_overflow, cb_despachado, cb_recibidos, cb_excepciones,
                   cb_doa_activo, cb_doa_hecho, cb_indices, cb_tras_doa,
                   cb_tras_bf>>
    /\ UNCHANGED <<doa_parado, bf_parado, guardado_fallo, bf_salida,
                   agregados, doa_publicado, validos>>
    /\ UNCHANGED <<cbVars, pdgVars, doaVars, bfVars>>
    /\ UNCHANGED <<obsVars, calVars, streams_abiertos, f_res, sistema_activo,
                   cb_invocados, cb_registrados>>

\* GestionDispositivos.detener_captura: self.is_recording = False
RecordingTrasDetener == FALSE

DetenerCaptura ==
    /\ Puede("detener_captura")
    /\ is_recording' = RecordingTrasDetener
    /\ cap_parada' = TRUE
    /\ main_pila' = IF stream # "none" THEN <<"cerrar_stream">> \o Resto
                    ELSE Resto
    /\ UNCHANGED <<stream, stream_blocksize, blocksize, suscriptores,
                   overflow_counter>>
    /\ UNCHANGED <<audio_data, lectura_ang, lectura>>
    /\ UNCHANGED <<doa_parado, bf_parado, guardado_fallo, bf_salida,
                   agregados, doa_publicado, validos>>
    /\ UNCHANGED <<cbVars, pdgVars, doaVars, bfVars, cbHist>>
    /\ UNCHANGED <<obsVars, calVars, streams_abiertos, f_res, sistema_activo,
                   cb_invocados, cb_registrados>>

\* detener_captura: self.stream.stop(); self.stream.close(); self.stream = None
CerrarStream ==
    /\ Esta("cerrar_stream")
    /\ cb_pc = "idle"
    /\ stream' = "none"
    /\ stream_blocksize' = 0
    /\ main_pila' = Resto
    /\ UNCHANGED <<is_recording, blocksize, suscriptores, overflow_counter>>
    /\ UNCHANGED <<audio_data, lectura_ang, lectura>>
    /\ UNCHANGED <<cbVars, pdgVars, doaVars, bfVars, cbHist, histVars>>
    /\ streams_abiertos' = streams_abiertos - 1
    /\ UNCHANGED <<obsVars, calVars, f_res, sistema_activo,
                   cb_invocados, cb_registrados>>

\* GestionDispositivos.cambiar_blocksize
CambiarBlocksize ==
    /\ main_pila = << >>
    /\ \E nuevo \in BlocksizeSet :
         blocksize' = IF is_recording THEN blocksize
                      ELSE IF nuevo \notin BlocksizesValidos THEN blocksize
                      ELSE nuevo
    /\ UNCHANGED <<is_recording, stream, stream_blocksize, suscriptores,
                   overflow_counter>>
    /\ UNCHANGED <<cbVars, pdgVars, doaVars, bfVars, mainVars, cbHist,
                   histVars>>
    /\ UNCHANGED <<obsVars, calVars, streams_abiertos, f_res, sistema_activo,
                   cb_invocados, cb_registrados>>

\* DOA.iniciar_doa
IniciarDoa ==
    /\ Puede("iniciar_doa")
    /\ main_pila' = Resto
    /\ doa_is_active' = TRUE
    /\ doa_parado' = FALSE
    /\ cb_tras_doa' = FALSE
    /\ UNCHANGED <<angulo_actual, confianza, fase_gruesa, angulo_grueso>>
    /\ UNCHANGED <<cb_overflow, cb_despachado, cb_recibidos, cb_excepciones,
                   cb_doa_activo, cb_doa_hecho, cb_indices, cb_tras_bf,
                   cb_tras_cap>>
    /\ UNCHANGED <<bf_parado, cap_parada, guardado_fallo, bf_salida,
                   agregados, doa_publicado, validos>>
    /\ UNCHANGED <<gestionVars, cbVars, pdgVars, bfVars>>
    /\ UNCHANGED <<audio_data, lectura_ang, lectura>>
    /\ UNCHANGED <<obsVars, calVars, streams_abiertos, f_res, sistema_activo,
                   cb_invocados, cb_registrados>>

ActivoTrasDetenerDoaMal == doa_is_active
\* DOA.detener_doa: self.is_active = False
ActivoTrasDetenerDoa == FALSE

DetenerDoa ==
    /\ Puede("detener_doa")
    /\ main_pila' = Resto
    /\ doa_is_active' = ActivoTrasDetenerDoa
    /\ doa_parado' = TRUE
    /\ cb_doa_activo' = FALSE
    /\ UNCHANGED <<angulo_actual, confianza, fase_gruesa, angulo_grueso>>
    /\ UNCHANGED <<audio_data, lectura_ang, lectura>>
    /\ UNCHANGED <<cb_overflow, cb_despachado, cb_recibidos, cb_excepciones,
                   cb_doa_hecho, cb_indices, cb_tras_doa, cb_tras_bf,
                   cb_tras_cap>>
    /\ UNCHANGED <<bf_parado, cap_parada, guardado_fallo, bf_salida,
                   agregados, doa_publicado, validos>>
    /\ UNCHANGED <<gestionVars, cbVars, pdgVars, bfVars>>
    /\ hist_iguales' = 0
    /\ UNCHANGED <<ultima_lectura, cb_crudo, cb_piso, calVars, streams_abiertos,
                   f_res, sistema_activo,
                   cb_invocados, cb_registrados>>

\* BeamformingSystem.iniciar_beamforming
IniciarBeamforming ==
    /\ Puede("iniciar_beamforming")
    /\ main_pila' = Resto
    /\ IF bf_is_active
       THEN UNCHANGED <<bf_is_active, bf_is_processing, bf_parado,
                        cb_tras_bf>>
       ELSE /\ bf_is_active' = TRUE
            /\ bf_is_processing' = TRUE
            /\ bf_parado' = FALSE
            /\ cb_tras_bf' = FALSE
    /\ UNCHANGED <<current_angle, canal0_buffer, beamformed_buffer,
                   full_beamformed_audio, filtro_zi, archivos>>
    /\ UNCHANGED <<cb_overflow, cb_despachado, cb_recibidos, cb_excepciones,
                   cb_doa_activo, cb_doa_hecho, cb_indices, cb_tras_doa,
                   cb_tras_cap>>
    /\ UNCHANGED <<doa_parado, cap_parada, guardado_fallo, bf_salida,
                   agregados, doa_publicado, validos>>
    /\ UNCHANGED <<gestionVars, cbVars, pdgVars, doaVars>>
    /\ UNCHANGED <<audio_data, lectura_ang, lectura>>
    /\ UNCHANGED <<obsVars, calVars, streams_abiertos, f_res, sistema_activo,
                   cb_invocados, cb_registrados>>

\* guardar_audio_beamformed up to np.concatenate(self.full_beamformed_audio):
\* the recording is read into the local audio_data.  Entered from the save
\* button; detener_beamforming enters it through DetenerBeamforming.
GuardarAudioBeamformed ==
    /\ main_pila = << >>
    /\ Len(full_beamformed_audio) # 0
    /\ audio_data' = full_beamformed_audio
    /\ main_pila' = <<"escribir_wav">>
    /\ UNCHANGED <<lectura_ang, lectura>>
    /\ UNCHANGED <<gestionVars, cbVars, pdgVars, doaVars, bfVars, cbHist,
                   histVars>>
    /\ UNCHANGED <<obsVars, calVars, streams_abiertos, f_res, sistema_activo,
                   cb_invocados, cb_registrados>>

\* guardar_audio_beamformed: wavfile.write(...) and, when it has succeeded,
\* self.full_beamformed_audio = []; a failed write is caught and printed.
EscribirWav ==
    /\ Esta("escribir_wav")
    /\ main_pila' = Resto
    /\ audio_data' = << >>
    /\ \/ /\ archivos' = Append(archivos, audio_data)
          /\ full_beamformed_audio' = << >>
          /\ UNCHANGED guardado_fallo
       \/ /\ guardado_fallo' = TRUE
          /\ UNCHANGED <<archivos, full_beamformed_audio>>
    /\ UNCHANGED <<bf_is_active, bf_is_processing, current_angle,
                   canal0_buffer, beamformed_buffer, filtro_zi>>
    /\ UNCHANGED <<lectura_ang, lectura>>
    /\ UNCHANGED <<doa_parado, bf_parado, cap_parada, bf_salida, agregados,
                   doa_publicado, validos>>
    /\ UNCHANGED <<gestionVars, cbVars, pdgVars, doaVars, cbHist>>
    /\ UNCHANGED <<obsVars, calVars, streams_abiertos, f_res, sistema_activo,
                   cb_invocados, cb_registrados>>

\* BeamformingSystem.detener_beamforming: the final save, when there is
\* something to save ...
DetenerBeamforming ==
    /\ Puede("detener_beamforming")
    /\ IF Len(full_beamformed_audio) > 0
       THEN /\ audio_data' = full_beamformed_audio
            /\ main_pila' = <<"escribir_wav", "apagar_beamforming">> \o Resto
       ELSE /\ main_pila' = <<"apagar_beamforming">> \o Resto
            /\ UNCHANGED audio_data
    /\ UNCHANGED <<lectura_ang, lectura>>
    /\ UNCHANGED <<gestionVars, cbVars, pdgVars, doaVars, bfVars, cbHist,
                   histVars>>
    /\ UNCHANGED <<obsVars, calVars, streams_abiertos, f_res, sistema_activo,
                   cb_invocados, cb_registrados>>

\* detener_beamforming: self.is_active = False
ActivoTrasDetenerBF == FALSE

\* ... then is_processing = False, is_active = False, filtro_zi = None.
ApagarBeamforming ==
    /\ Esta("apagar_beamforming")
    /\ main_pila' = Resto
    /\ bf_is_processing' = ActivoTrasDetenerBF
    /\ bf_is_active' = ActivoTrasDetenerBF
    /\ filtro_zi' = "None"
    /\ bf_parado' = TRUE
    /\ UNCHANGED <<current_angle, canal0_buffer, beamformed_buffer,
                   full_beamformed_audio, archivos>>
    /\ UNCHANGED <<audio_data, lectura_ang, lectura>>
    /\ UNCHANGED <<doa_parado, cap_parada, guardado_fallo, bf_salida,
                   agregados, doa_publicado, validos>>
    /\ UNCHANGED <<gestionVars, cbVars, pdgVars, doaVars, cbHist>>
    /\ UNCHANGED <<obsVars, calVars, streams_abiertos, f_res, sistema_activo,
                   cb_invocados, cb_registrados>>

\* DOA.get_angulo_actual, called by estado_sistema: self.angulo_actual is
\* loaded ...
GetAnguloActual ==
    /\ main_pila = << >>
    /\ lectura_ang' = angulo_actual
    /\ validos' = {doa_publicado}
    /\ main_pila' = <<"leer_confianza", "usar_lectura">>
    /\ UNCHANGED <<audio_data, lectura>>
    /\ UNCHANGED <<doa_parado, bf_parado, cap_parada, guardado_fallo,
                   bf_salida, agregados, doa_publicado>>
    /\ UNCHANGED <<gestionVars, cbVars, pdgVars, doaVars, bfVars, cbHist>>
    /\ ultima_lectura' = LecturaEmpieza
    /\ UNCHANGED <<cb_crudo, hist_iguales, cb_piso, calVars, streams_abiertos,
                   f_res, sistema_activo,
                   cb_invocados, cb_registrados>>

ConfianzaTrasLeerMal(c) == Escalar(c, 9)
\* get_angulo_actual only reads: self.confianza after the call
ConfianzaTrasLeer(c) == c

\* ... then self.confianza, and the pair is returned ...
LeerConfianza ==
    /\ Esta("leer_confianza")
    /\ main_pila' = Resto
    /\ lectura' = <<lectura_ang, confianza>>
    /\ lectura_ang' = 0
    /\ UNCHANGED audio_data
    /\ confianza' = ConfianzaTrasLeer(confianza)
    /\ ultima_lectura' =
           IF ultima_lectura.estado = "sin" THEN ultima_lectura
           ELSE IF ultima_lectura.estado = "leyendo"
           THEN [estado |-> "valida", par |-> lectura']
           ELSE [estado |-> "repetida", par |-> lectura']
    /\ UNCHANGED <<doa_is_active, angulo_actual, fase_gruesa, angulo_grueso>>
    /\ UNCHANGED <<gestionVars, cbVars, pdgVars, bfVars, cbHist, histVars>>
    /\ UNCHANGED <<cb_crudo, hist_iguales, cb_piso, calVars, streams_abiertos,
                   f_res, sistema_activo,
                   cb_invocados, cb_registrados>>

\* ... to the caller, which prints it.
UsarLectura ==
    /\ Esta("usar_lectura")
    /\ main_pila' = Resto
    /\ lectura' = << >>
    /\ validos' = {}
    /\ UNCHANGED <<audio_data, lectura_ang>>
    /\ UNCHANGED <<doa_parado, bf_parado, cap_parada, guardado_fallo,
                   bf_salida, agregados, doa_publicado>>
    /\ UNCHANGED <<gestionVars, cbVars, pdgVars, doaVars, bfVars, cbHist>>
    /\ UNCHANGED <<obsVars, calVars, streams_abiertos, f_res, sistema_activo,
                   cb_invocados, cb_registrados>>

\* detener_sistema: self.pdg.running = False
ApagarPdg ==
    /\ Esta("pdg_off")
    /\ pdg_running' = FALSE
    /\ main_pila' = Resto
    /\ UNCHANGED <<pdg_buffer, audio_data, lectura_ang, lectura>>
    /\ UNCHANGED <<gestionVars, cbVars, doaVars, bfVars, cbHist, histVars>>
    /\ UNCHANGED <<obsVars, calVars, streams_abiertos, f_res, sistema_activo,
                   cb_invocados, cb_registrados>>

\* SistemaIntegrado.detener_sistema: the modules in reverse order, then the
\* capture.
DetenerSistema ==
    /\ main_pila = << >>
    /\ sistema_activo' = FALSE
    /\ main_pila' = <<"detener_beamforming", "detener_doa", "pdg_off",
                      "detener_captura">>
    /\ UNCHANGED <<audio_data, lectura_ang, lectura>>
    /\ UNCHANGED <<gestionVars, cbVars, pdgVars, doaVars, bfVars, cbHist,
                   histVars>>
    /\ UNCHANGED <<obsVars, calVars, streams_abiertos, f_res, cb_invocados,
                   cb_registrados>>

(* ------- another thread: agregar_suscriptor, remover_suscriptor -------- *)

\* The callbacks the modules register: their recibir_audio methods.
CallbacksModulos == {"PDG", "DOA", "BF"}

CallbackLockLibreMal == TRUE
\* with self.callback_lock: the lock is free unless the capture thread is
\* inside the with block of audio_callback_central.
CallbackLockLibre == cb_pc \in {"idle", "fin"}

\* self.suscriptores.remove(callback): the first occurrence goes.
Quitar(lista, callback) ==
    LET i == CHOOSE j \in DOMAIN lista :
                 /\ lista[j] = callback
                 /\ \A k \in 1 .. j - 1 : lista[k] # callback
    IN  SubSeq(lista, 1, i - 1) \o SubSeq(lista, i + 1, Len(lista))

\* GestionDispositivos.agregar_suscriptor
AgregarSuscriptor ==
    /\ main_pila = << >>
    /\ CallbackLockLibre
    /\ Len(suscriptores) < MaxSuscriptores
    /\ \E callback \in CallbacksModulos :
         suscriptores' = Append(suscriptores, callback)
    /\ UNCHANGED <<is_recording, stream, stream_blocksize, blocksize,
                   overflow_counter>>
    /\ UNCHANGED <<cbVars, pdgVars, doaVars, bfVars, mainVars, cbHist,
                   histVars>>
    /\ UNCHANGED <<obsVars, calVars, streams_abiertos, f_res, sistema_activo,
                   cb_invocados, cb_registrados>>

\* GestionDispositivos.remover_suscriptor
RemoverSuscriptor ==
    /\ main_pila = << >>
    /\ CallbackLockLibre
    /\ \E callback \in CallbacksModulos :
         suscriptores' = IF \E j \in DOMAIN suscriptores :
                                suscriptores[j] = callback
                         THEN Quitar(suscriptores, callback)
                         ELSE suscriptores
    /\ UNCHANGED <<is_recording, stream, stream_blocksize, blocksize,
                   overflow_counter>>
    /\ UNCHANGED <<cbVars, pdgVars, doaVars, bfVars, mainVars, cbHist,
                   histVars>>
    /\ UNCHANGED <<obsVars, calVars, streams_abiertos, f_res, sistema_activo,
                   cb_invocados, cb_registrados>>

(* ------------- main thread: iniciar_sistema, menu_calibracion ---------- *)

\* SistemaIntegrado.iniciar_sistema: its steps, in the order of the method.
PasosIniciarSistema ==
    <<"iniciar_captura", "respuesta", "pdg_on", "iniciar_doa",
      "iniciar_beamforming", "sistema_activo">>

IniciarSistema ==
    /\ main_pila = << >>
    /\ main_pila' = PasosIniciarSistema
    /\ UNCHANGED <<audio_data, lectura_ang, lectura>>
    /\ UNCHANGED <<gestionVars, cbVars, pdgVars, doaVars, bfVars, cbHist,
                   histVars>>
    /\ UNCHANGED <<obsVars, calVars, streams_abiertos, f_res, sistema_activo,
                   cb_invocados, cb_registrados>>

\* respuesta = input("Calibrar? (s/n)"): with 's' calibrar_rapido(0, 8)
\* runs before the modules are started.
Respuesta ==
    /\ Esta("respuesta")
    /\ \E respuesta \in {"s", "n"} :
         main_pila' = IF respuesta = "s"
                      THEN <<"calibrar_rapido">> \o Resto
                      ELSE Resto
    /\ UNCHANGED <<audio_data, lectura_ang, lectura>>
    /\ UNCHANGED <<gestionVars, cbVars, pdgVars, doaVars, bfVars, cbHist,
                   histVars>>
    /\ UNCHANGED <<obsVars, calVars, streams_abiertos, f_res, sistema_activo,
                   cb_invocados, cb_registrados>>

\* self.pdg.running = True
EncenderPdg ==
    /\ Esta("pdg_on")
    /\ pdg_running' = TRUE
    /\ main_pila' = Resto
    /\ UNCHANGED <<pdg_buffer, audio_data, lectura_ang, lectura>>
    /\ UNCHANGED <<gestionVars, cbVars, doaVars, bfVars, cbHist, histVars>>
    /\ UNCHANGED <<obsVars, calVars, streams_abiertos, f_res, sistema_activo,
                   cb_invocados, cb_registrados>>

\* self.sistema_activo = True
ActivarSistema ==
    /\ Esta("sistema_activo")
    /\ sistema_activo' = TRUE
    /\ main_pila' = Resto
    /\ UNCHANGED <<audio_data, lectura_ang, lectura>>
    /\ UNCHANGED <<gestionVars, cbVars, pdgVars, doaVars, bfVars, cbHist,
                   histVars>>
    /\ UNCHANGED <<obsVars, calVars, streams_abiertos, f_res, cb_invocados,
                   cb_registrados>>

\* SistemaIntegrado.menu_calibracion: options 1 and 2 call calibrar_rapido,
\* 3 reads the offset, 4 resets it, 5 returns.
MenuCalibracion ==
    /\ main_pila = << >>
    /\ sistema_activo
    /\ \E opcion \in 1 .. 5 :
         /\ main_pila' = IF opcion \in {1, 2} THEN <<"calibrar_rapido">>
                         ELSE << >>
         /\ offset_calibracion' = IF opcion = 4
                                  THEN [definido |-> TRUE, valor |-> 0]
                                  ELSE offset_calibracion
    /\ UNCHANGED <<audio_data, lectura_ang, lectura>>
    /\ UNCHANGED <<cal_real, cal_angulos, cal_retorno, cal_cancelada>>
    /\ UNCHANGED <<gestionVars, cbVars, pdgVars, doaVars, bfVars, cbHist,
                   histVars>>
    /\ UNCHANGED <<obsVars, streams_abiertos, f_res, sistema_activo,
                   cb_invocados, cb_registrados>>

(* ------------------- main thread: calibrar_rapido ---------------------- *)

\* calibrar_rapido(angulo_real, duracion) up to the while loop.
CalibrarRapido ==
    /\ Puede("calibrar_rapido")
    /\ \E real \in RealSet : cal_real' = real
    /\ cal_angulos' = << >>
    /\ cal_retorno' = SinRetorno
    /\ cal_cancelada' = FALSE
    /\ main_pila' = <<"cal_bucle">> \o Resto
    /\ UNCHANGED <<audio_data, lectura_ang, lectura, offset_calibracion>>
    /\ UNCHANGED <<gestionVars, cbVars, pdgVars, doaVars, bfVars, cbHist,
                   histVars, obsVars, streams_abiertos, f_res, sistema_activo,
                   cb_invocados, cb_registrados>>

\* One turn of the loop: self.doa.get_angulo_actual() loads angulo_actual
\* (LeerConfianza then loads confianza) ...
CalMuestrear ==
    /\ Esta("cal_bucle")
    /\ Len(cal_angulos) < MaxMuestras
    /\ lectura_ang' = angulo_actual
    /\ validos' = {doa_publicado}
    /\ main_pila' = <<"leer_confianza", "cal_muestra">> \o main_pila
    /\ UNCHANGED <<audio_data, lectura>>
    /\ UNCHANGED <<doa_parado, bf_parado, cap_parada, guardado_fallo,
                   bf_salida, agregados, doa_publicado>>
    /\ ultima_lectura' = LecturaEmpieza
    /\ UNCHANGED <<gestionVars, cbVars, pdgVars, doaVars, bfVars, cbHist,
                   cb_crudo, hist_iguales, cb_piso, calVars, streams_abiertos,
                   f_res, sistema_activo,
                   cb_invocados, cb_registrados>>

\* ... and the pair is kept when confianza > 0.4.
CalMuestra ==
    /\ Esta("cal_muestra")
    /\ main_pila' = Resto
    /\ cal_angulos' = IF MayorQue(lectura[2], 4, 10)
                      THEN Append(cal_angulos, lectura[1]) ELSE cal_angulos
    /\ lectura' = << >>
    /\ validos' = {}
    /\ UNCHANGED <<audio_data, lectura_ang>>
    /\ UNCHANGED <<offset_calibracion, cal_real, cal_retorno, cal_cancelada>>
    /\ UNCHANGED <<doa_parado, bf_parado, cap_parada, guardado_fallo,
                   bf_salida, agregados, doa_publicado>>
    /\ UNCHANGED <<gestionVars, cbVars, pdgVars, doaVars, bfVars, cbHist,
                   obsVars, streams_abiertos, f_res, sistema_activo,
                   cb_invocados, cb_registrados>>

\* except KeyboardInterrupt: return None
CalCancelar ==
    /\ Esta("cal_bucle")
    /\ main_pila' = Resto
    /\ cal_retorno' = RetornoNone
    /\ cal_cancelada' = TRUE
    /\ UNCHANGED <<audio_data, lectura_ang, lectura>>
    /\ UNCHANGED <<offset_calibracion, cal_real, cal_angulos>>
    /\ UNCHANGED <<gestionVars, cbVars, pdgVars, doaVars, bfVars, cbHist,
                   histVars, obsVars, streams_abiertos, f_res, sistema_activo,
                   cb_invocados, cb_registrados>>

\* The loop is over (duracion has elapsed): the analysis of the samples.
CalTerminar ==
    /\ Esta("cal_bucle")
    /\ main_pila' = Resto
    /\ offset_calibracion' =
           OffsetCalibrado(cal_angulos, cal_real, offset_calibracion)
    /\ cal_retorno' = RetornoCalibrado(cal_angulos, cal_real)
    /\ UNCHANGED <<audio_data, lectura_ang, lectura>>
    /\ UNCHANGED <<cal_real, cal_angulos, cal_cancelada>>
    /\ UNCHANGED <<gestionVars, cbVars, pdgVars, doaVars, bfVars, cbHist,
                   histVars, obsVars, streams_abiertos, f_res, sistema_activo,
                   cb_invocados, cb_registrados>>

SinOverflow == {"ninguno"}

\* The dispatcher: the callback with every status flag and a failing
\* subscriber, and the operations that start the modules and start and stop
\* the capture.
NextDespacho ==
    \/ CallbackInicio(StatusSet, MaxBloquesSistema)
    \/ CallbackFin
    \/ RecibirAudioPDG(TRUE)
    \/ RecibirAudioDOA
    \/ EscribirConfianza
    \/ RecibirAudioBF
    \/ ProcesarBF
    \/ IniciarCaptura
    \/ DetenerCaptura
    \/ CerrarStream
    \/ CambiarBlocksize
    \/ IniciarDoa
    \/ IniciarBeamforming

SpecDespacho == Init /\ [][NextDespacho]_vars

\* The DOA estimator under the capture thread, its readers and every
\* operation of the capture manager.
NextDoa ==
    \/ CallbackInicio(SinOverflow, MaxBloques)
    \/ CallbackFin
    \/ RecibirAudioPDG(FALSE)
    \/ RecibirAudioDOA
    \/ EscribirConfianza
    \/ RecibirAudioBF
    \/ IniciarCaptura
    \/ DetenerCaptura
    \/ CerrarStream
    \/ PausarCaptura
    \/ ReanudarCaptura
    \/ ReanudarFlag
    \/ CambiarBlocksize
    \/ IniciarDoa
    \/ DetenerDoa
    \/ GetAnguloActual
    \/ LeerConfianza
    \/ UsarLectura

SpecDoa == Init /\ [][NextDoa]_vars

\* The integrated system: start of the modules, recording, saving and the
\* stop sequence.
NextSistema ==
    \/ CallbackInicio(SinOverflow, MaxBloquesSistema)
    \/ CallbackFin
    \/ RecibirAudioPDG(FALSE)
    \/ RecibirAudioDOA
    \/ EscribirConfianza
    \/ RecibirAudioBF
    \/ ProcesarBF
    \/ IniciarCaptura
    \/ IniciarDoa
    \/ IniciarBeamforming
    \/ GuardarAudioBeamformed
    \/ EscribirWav
    \/ DetenerBeamforming
    \/ ApagarBeamforming
    \/ DetenerDoa
    \/ ApagarPdg
    \/ DetenerCaptura
    \/ CerrarStream
    \/ DetenerSistema

SpecSistema == Init /\ [][NextSistema]_vars

(* ---------------------- functions on their own ------------------------- *)

todoMenosFres == <<gestionVars, cbVars, pdgVars, doaVars, bfVars, mainVars,
                   cbHist, histVars, obsVars, calVars, streams_abiertos,
                   sistema_activo,
                   cb_invocados, cb_registrados>>

\* The per-sample error of calibrar_rapido for one estimate in [0, 360) and
\* one reference.
EvalErrorAngular ==
    /\ f_res.op = "ninguna"
    /\ \E angulo \in 0 .. NumAngulos - 1, real \in ReferenciaSet :
         f_res' = [op |-> "error_angular", angulo |-> angulo, real |-> real,
                   sal |-> ErrorAngular(angulo, real)]
    /\ UNCHANGED todoMenosFres

\* One row of the beamformer's delay table and its quantization.
EvalDelays ==
    /\ f_res.op = "ninguna"
    /\ \E idx \in 0 .. FilasTablaBF - 1 :
         f_res' = [op |-> "delays", idx |-> idx,
                   fila |-> DelaysPrecalculated(idx),
                   sal |-> DelaySamples(DelaysPrecalculated(idx))]
    /\ UNCHANGED todoMenosFres

\* The length of the output of apply_beamforming for one block length and
\* one angle the DOA can publish.
EvalApplyBeamforming ==
    /\ f_res.op = "ninguna"
    /\ \E n \in LongitudSet, q \in 0 .. NumAngulos - 1 :
         f_res' = [op |-> "apply_beamforming", n |-> n, angulo |-> q,
                   sal |-> LongitudBeamformed(n, q)]
    /\ UNCHANGED todoMenosFres

\* calcular_doa, from the initial state of the DOA (angulo_actual 0,
\* confianza 0, fase_gruesa False), on the block of the plane wave from
\* theta0: the block arrives ...
OndaLlega ==
    /\ f_res.op = "ninguna"
    /\ \E theta0 \in Theta0Set :
         f_res' = [op |-> "srp_grueso", theta0 |-> theta0,
                   cruzadas |-> FasesCruzadas(theta0),
                   pots_grueso |-> << >>]
    /\ UNCHANGED todoMenosFres

\* ... one turn of the coarse loop ...
PotenciaGruesa ==
    /\ f_res.op = "srp_grueso"
    /\ Len(f_res.pots_grueso) < 360 \div PasoGrueso
    /\ f_res' = [f_res EXCEPT !.pots_grueso =
           Append(@, CalcularPotenciaAngulo(f_res.cruzadas,
                         IdxGrueso(Len(@) * PasoGrueso)))]
    /\ UNCHANGED todoMenosFres

\* ... the coarse peak; np.max(pots_grueso) < 1e-10 ends the search ...
FinGrueso ==
    /\ f_res.op = "srp_grueso"
    /\ Len(f_res.pots_grueso) = 360 \div PasoGrueso
    /\ f_res' =
         IF f_res.pots_grueso[ArgMax(f_res.pots_grueso)] <= 0
         THEN [op |-> "onda_plana", theta0 |-> f_res.theta0,
               grueso |-> AnguloGrueso(f_res.pots_grueso),
               pots |-> << >>,
               sal |-> PublicaTrasSrp([angulo |-> 0,
                                       confianza |-> Escalar(Cero, 8)],
                                      0, Cero)]
         ELSE [op |-> "srp_fino", theta0 |-> f_res.theta0,
               cruzadas |-> f_res.cruzadas,
               grueso |-> AnguloGrueso(f_res.pots_grueso),
               pots |-> << >>]
    /\ UNCHANGED todoMenosFres

\* ... one turn of the fine loop ...
PotenciaFina ==
    /\ f_res.op = "srp_fino"
    /\ Len(f_res.pots) < Cardinality(IndicesBusqueda(f_res.grueso))
    /\ f_res' = [f_res EXCEPT !.pots =
           Append(@, CalcularPotenciaAngulo(f_res.cruzadas,
                         AnguloInicio(f_res.grueso) * ResolucionInv + Len(@)))]
    /\ UNCHANGED todoMenosFres

\* ... the estimate, and what calcular_doa publishes.
PublicarOnda ==
    /\ f_res.op = "srp_fino"
    /\ Len(f_res.pots) = Cardinality(IndicesBusqueda(f_res.grueso))
    /\ f_res' = [op |-> "onda_plana", theta0 |-> f_res.theta0,
                 grueso |-> f_res.grueso, pots |-> f_res.pots,
                 sal |-> PublicaTrasSrp(
                            Estimacion(f_res.pots,
                                AnguloInicio(f_res.grueso) * ResolucionInv,
                                0, Cero),
                            0, Cero)]
    /\ UNCHANGED todoMenosFres

\* The channel combination of apply_beamforming, before the IIR filter, for
\* one block and one angle the DOA can publish.
EvalBeamformedSignal ==
    /\ f_res.op = "ninguna"
    /\ \E amp \in AmplitudSet, n \in LongitudSet, q \in AngulosCombinacion :
         f_res' = [op |-> "beamformed_signal", amp |-> amp, n |-> n,
                   angulo |-> q, sal |-> BeamformedSignal(amp, n, q)]
    /\ UNCHANGED todoMenosFres

\* srp_phat_optimizado, lines 201-210: the rows of the fine loop around the
\* coarse peak g
EvalIndicesBusqueda ==
    /\ f_res.op = "ninguna"
    /\ \E g \in AngulosGrueso :
         f_res' = [op |-> "indices_busqueda", g |-> g,
                   sal |-> IndicesBusqueda(g)]
    /\ UNCHANGED todoMenosFres

\* audio_callback_central -> DOA.recibir_audio -> calcular_doa on one block,
\* the whole callback as one step, for the endless runs of the search: the
\* other subscribers are left out and the blocks are numbered round
\* MaxBloques.
CalcularDoa(rms) ==
    /\ cb_pc = "idle"
    /\ stream = "activo"
    /\ is_recording
    /\ nbloques' = (nbloques % MaxBloques) + 1
    /\ \/ \* not active: the block is ignored
          /\ ~doa_is_active
          /\ cb_indices' = {}
          /\ cb_piso' = FALSE
          /\ UNCHANGED <<doaVars, doa_publicado, cb_crudo, hist_iguales>>
       \/ \* rms <= 0.004
          /\ doa_is_active
          /\ rms <= UmbralRms
          /\ confianza' = ConfianzaSilencio(confianza)
          /\ fase_gruesa' = FALSE
          /\ cb_indices' = {}
          /\ cb_piso' = FALSE
          /\ doa_publicado' = <<angulo_actual, confianza'>>
          /\ UNCHANGED <<doa_is_active, angulo_actual, angulo_grueso,
                         cb_crudo, hist_iguales>>
       \/ \* IndexError, caught before anything was assigned
          /\ doa_is_active
          /\ rms > UmbralRms
          /\ DoaLanzaIndexError([id |-> 0, size |-> stream_blocksize,
                                 rms |-> rms])
          /\ cb_indices' = IF fase_gruesa
                           THEN {AnguloInicio(angulo_grueso) * ResolucionInv}
                           ELSE {IdxGrueso(0)}
          /\ cb_piso' = FALSE
          /\ UNCHANGED <<doaVars, doa_publicado, cb_crudo, hist_iguales>>
       \/ /\ doa_is_active
          /\ rms > UmbralRms
          /\ ~DoaLanzaIndexError([id |-> 0, size |-> stream_blocksize,
                                  rms |-> rms])
          /\ \E r \in SrpPhatOptimizado(fase_gruesa, angulo_grueso,
                                        angulo_actual, confianza) :
               /\ fase_gruesa' = r.fase
               /\ angulo_grueso' = r.grueso
               /\ cb_indices' = r.indices
               /\ cb_piso' = r.piso
               /\ IF MayorQue(r.confianza, 25, 100)
                  THEN /\ angulo_actual' = r.angulo
                       /\ confianza' = r.confianza
                       /\ cb_crudo' = r.angulo
                       /\ hist_iguales' = EmpujaCrudo(r.angulo)
                  ELSE /\ confianza' = Escalar(confianza, 9)
                       /\ UNCHANGED <<angulo_actual, cb_crudo, hist_iguales>>
               /\ confianza'.k <= MaxDecimales
          /\ doa_publicado' = <<angulo_actual', confianza'>>
          /\ UNCHANGED doa_is_active
    /\ UNCHANGED <<cb_pc, cb_i, cb_bloque, cb_conf>>
    /\ UNCHANGED <<cb_overflow, cb_despachado, cb_recibidos, cb_excepciones,
                   cb_doa_activo, cb_doa_hecho, cb_tras_doa, cb_tras_bf,
                   cb_tras_cap>>
    /\ UNCHANGED <<doa_parado, bf_parado, cap_parada, guardado_fallo,
                   bf_salida, agregados, validos>>
    /\ UNCHANGED <<gestionVars, pdgVars, bfVars, mainVars>>
    /\ UNCHANGED <<ultima_lectura, calVars, streams_abiertos, f_res, sistema_activo,
                   cb_invocados, cb_registrados>>

\* A block with rms > 0.004 reaches calcular_doa of the active DOA.
BloqueActivo ==
    /\ doa_is_active
    /\ \E rms \in RmsSet : rms > UmbralRms /\ CalcularDoa(rms)

\* np.random.random() < 0.05 (or a floor branch): the block leaves
\* fase_gruesa False.
Reinicio == BloqueActivo /\ fase_gruesa /\ ~fase_gruesa'

\* The search phases of the DOA over an endless run of blocks, the restart
\* being drawn fairly.
NextBusqueda ==
    \/ \E rms \in RmsSet : CalcularDoa(rms)
    \/ IniciarCaptura
    \/ DetenerCaptura
    \/ CerrarStream
    \/ CambiarBlocksize
    \/ IniciarDoa
    \/ DetenerDoa

SpecBusqueda == Init /\ [][NextBusqueda]_vars /\ SF_vars(Reinicio)

\* calibrar_rapido polling a running DOA.
NextCalibracion ==
    \/ CallbackInicio(SinOverflow, MaxBloquesSistema)
    \/ CallbackFin
    \/ RecibirAudioPDG(FALSE)
    \/ RecibirAudioDOA
    \/ EscribirConfianza
    \/ RecibirAudioBF
    \/ IniciarCaptura
    \/ IniciarDoa
    \/ CalibrarRapido
    \/ CalMuestrear
    \/ LeerConfianza
    \/ CalMuestra
    \/ CalCancelar
    \/ CalTerminar

SpecCalibracion == Init /\ [][NextCalibracion]_vars

\* The integrated system as main() and the console drive it: iniciar_sistema,
\* once, then menu_calibracion (both call calibrar_rapido with angulo_real
\* 0), with the capture thread running and the stop button of the DOA window.
NextArranque ==
    \/ CallbackInicio(SinOverflow, MaxBloquesArranque)
    \/ CallbackFin
    \/ RecibirAudioPDG(FALSE)
    \/ RecibirAudioDOA
    \/ EscribirConfianza
    \/ RecibirAudioBF
    \/ ProcesarBF
    \/ (~sistema_activo /\ IniciarSistema)
    \/ (Esta("iniciar_captura") /\ IniciarCaptura)
    \/ Respuesta
    \/ EncenderPdg
    \/ (Esta("iniciar_doa") /\ IniciarDoa)
    \/ (Esta("iniciar_beamforming") /\ IniciarBeamforming)
    \/ ActivarSistema
    \/ MenuCalibracion
    \/ (Esta("calibrar_rapido") /\ CalibrarRapido /\ cal_real' = 0)
    \/ CalMuestrear
    \/ LeerConfianza
    \/ CalMuestra
    \/ CalCancelar
    \/ CalTerminar
    \/ DetenerDoa

SpecArranque == Init /\ [][NextArranque]_vars

\* The dispatcher with a subscriber list that another thread changes while
\* the capture runs: a subscriber can fail, the capture is started and
\* stopped.
NextSuscriptores ==
    \/ CallbackInicio(SinOverflow, MaxBloquesSistema)
    \/ CallbackFin
    \/ RecibirAudioPDG(TRUE)
    \/ RecibirAudioDOA
    \/ RecibirAudioBF
    \/ IniciarCaptura
    \/ DetenerCaptura
    \/ CerrarStream
    \/ AgregarSuscriptor
    \/ RemoverSuscriptor

SpecSuscriptores == Init /\ [][NextSuscriptores]_vars

(* ------------------------------- claims -------------------------------- *)

\* C1: within one block the dispatcher calls the DOA handler before the
\* beamforming handler, so that when the beamformer processes a block that an
\* active DOA has seen, the DOA update of that same block is already done.
C1_DoaAntesDeBf ==
    /\ "BF" \in cb_recibidos => "DOA" \in cb_recibidos
    /\ cb_pc = "bf_proc" /\ cb_doa_activo => cb_doa_hecho

C1_Witness == cb_pc = "bf_proc" /\ cb_doa_activo /\ cb_doa_hecho

Todos == {"PDG", "DOA", "BF"}
FilasDoa == 0 .. NumAngulos - 1

\* C2: in every reachable state the published angle is in [0, 360) (0..1439
\* quarter degrees), the published confidence is in [0, 1], and every row of
\* the delay table read while processing a block is one of its N = 1440 rows;
\* the row the beamformer derives from the angle is one of its 360 rows.
C2_Rangos ==
    /\ angulo_actual \in FilasDoa
    /\ EnUnidad(confianza)
    /\ doa_publicado[1] \in FilasDoa /\ EnUnidad(doa_publicado[2])
    /\ cb_indices \subseteq FilasDoa
    /\ CalculateDelaysIdx(angulo_actual) \in 0 .. FilasTablaBF - 1

\* A block peaking at the last fine candidate of the window clipped at 360,
\* after a low-confidence or degenerate update has scaled the confidence.
C2_Witness ==
    /\ angulo_actual = NumAngulos - 1
    /\ cb_doa_hecho
    /\ (NumAngulos - 1) \in cb_indices
    /\ confianza \notin {Cero, [n |-> 5, k |-> 1]}

\* The DOA handler takes its step on the block in flight while active.
DoaProcesa ==
    /\ "DOA" \notin cb_recibidos
    /\ "DOA" \in cb_recibidos'
    /\ doa_is_active

\* C3: processing a block whose RMS is at or below the threshold raises
\* nothing, leaves the published angle unchanged and does not increase the
\* confidence, which is 0 after that one block (so over any run of such
\* blocks it is non-increasing and reaches 0 within one block).
C3_Silencio ==
    [][ DoaProcesa /\ cb_bloque.rms <= UmbralRms
          => /\ angulo_actual' = angulo_actual
             /\ MenorIgual(confianza', confianza)
             /\ confianza' = Cero
             /\ cb_excepciones' = cb_excepciones
             /\ doa_is_active' ]_vars

\* An all-zero block has been processed after a confident one: the angle of
\* the confident block is still published, with confidence 0.
C3_Witness ==
    /\ cb_doa_hecho
    /\ cb_bloque.rms = 0
    /\ angulo_actual # 0
    /\ confianza = Cero

\* The signal s is in a saved file.
EnArchivo(s) ==
    \E i \in DOMAIN archivos : \E j \in DOMAIN archivos[i] : archivos[i][j] = s

\* C4: once detener_beamforming has returned (and no write has failed),
\* full_beamformed_audio is empty and every block that was appended to it is
\* in a saved file.
C4_TodoGuardado ==
    bf_parado /\ ~guardado_fallo
        => /\ full_beamformed_audio = << >>
           /\ \A s \in agregados : EnArchivo(s)

\* A step of the capture thread.
PasoCallback == cb_pc' # cb_pc \/ cb_i' # cb_i

\* C5: a callback that starts after detener_doa changes neither angulo_actual
\* nor confianza; one that starts after detener_beamforming changes none of
\* the beamformer's buffers; one that starts after detener_captura is not
\* dispatched to any subscriber.
C5_TrasParar ==
    [][ PasoCallback
          => /\ cb_tras_doa => UNCHANGED <<angulo_actual, confianza>>
             /\ cb_tras_bf => UNCHANGED <<canal0_buffer, beamformed_buffer,
                                          full_beamformed_audio, current_angle>>
             /\ cb_tras_cap => /\ cb_recibidos' = {}
                               /\ UNCHANGED <<doaVars, bfVars, pdgVars>> ]_vars

\* A block delivered after both modules were stopped has been offered to
\* both handlers.
C5_Witness ==
    /\ cb_tras_doa /\ cb_tras_bf
    /\ {"DOA", "BF"} \subseteq cb_recibidos
    /\ angulo_actual # 0
    /\ Len(canal0_buffer) > 0

\* C6: when iniciar_doa restarts a DOA that detener_doa had stopped, the
\* smoothing and search state is the one of construction.
C6_ReinicioLimpio ==
    [][ doa_parado /\ ~doa_is_active /\ doa_is_active'
          => /\ angulo_actual' = 0
             /\ confianza' = Cero
             /\ ~fase_gruesa'
             /\ angulo_grueso' = 0 ]_vars

SinGanancia(sec) ==
    \A j \in DOMAIN sec :
        /\ sec[j].blk \in DOMAIN bf_salida
        /\ sec[j] = bf_salida[sec[j].blk]

\* C7: every block in full_beamformed_audio, in the recording being written
\* and in every saved file is exactly the output of apply_beamforming for
\* that block, without factor_amplificacion.
C7_SinGanancia ==
    /\ SinGanancia(full_beamformed_audio)
    /\ SinGanancia(audio_data)
    /\ \A i \in DOMAIN archivos : SinGanancia(archivos[i])

\* A file has been written while the monitoring buffer holds the amplified
\* copy of the same block.
C7_Witness ==
    /\ Len(archivos) > 0
    /\ Len(archivos[1]) > 0
    /\ Len(beamformed_buffer) > 0
    /\ beamformed_buffer[1].factor = FactorAmplificacion
    /\ beamformed_buffer[1].blk = archivos[1][1].blk

\* C8: the pair get_angulo_actual returns is one that a block update
\* published (the one in force when the call began or one published while it
\* ran).
C8_ParCoherente == lectura # << >> => lectura \in validos

\* C9: a callback that dispatches a block hands it to every subscriber even
\* when some of them raise, and an exception changes no activity flag.
C9_Excepciones ==
    /\ [](cb_pc = "fin" /\ cb_despachado => cb_recibidos = Todos)
    /\ [][ cb_excepciones' # cb_excepciones /\ cb_excepciones' # {}
             => UNCHANGED <<is_recording, stream, suscriptores, doa_is_active,
                            bf_is_active, bf_is_processing, pdg_running>> ]_vars

\* The second block is dispatched to everybody after PDG raised on the
\* first, and PDG and the beamformer raise on it.
C9_Witness ==
    /\ cb_pc = "fin"
    /\ nbloques = 2
    /\ canal0_buffer = <<1, 2>>
    /\ pdg_buffer = << >>
    /\ {"PDG", "BF"} \subseteq cb_excepciones
    /\ cb_recibidos = Todos

\* C10: a callback whose status reports input overflow adds exactly one to
\* overflow_counter, no step decreases the counter, and the callback
\* dispatches its block whenever is_recording holds, whatever the counter.
C10_Overflow ==
    [][ /\ overflow_counter' >= overflow_counter
        /\ cb_pc = "idle" /\ cb_pc' # "idle"
             => /\ cb_overflow' => overflow_counter' = overflow_counter + 1
                /\ cb_despachado' = is_recording ]_vars

\* The second overflowing callback in a row has dispatched its block to
\* every subscriber.
C10_Witness ==
    /\ overflow_counter = 2
    /\ cb_overflow
    /\ cb_pc = "fin"
    /\ cb_recibidos = Todos

\* The main thread is inside calibrar_rapido.
EnCalibracion ==
    IF main_pila = << >> THEN FALSE
    ELSE main_pila[Len(main_pila)] = "cal_bucle"

ErrorMediano == Mediana(Errores(cal_angulos, cal_real))

\* C11: when calibrar_rapido has returned after collecting at least one
\* sample and the median e of the wrapped errors has |e| > 2 degrees, the
\* value returned and the offset set on the DOA are both -e; three samples
\* of 5 degrees around the reference 0 give -5 degrees (-40 eighths).
C11_OffsetCalibrado ==
    /\ cal_retorno.estado = "valor" /\ Abs(ErrorMediano) > UmbralCalibracion
         => /\ cal_retorno.valor = -ErrorMediano
            /\ offset_calibracion = [definido |-> TRUE,
                                     valor |-> -ErrorMediano]
    /\ OffsetCalibrado(<<20, 20, 20>>, 0, SinOffset).valor = -40
    /\ RetornoCalibrado(<<20, 20, 20>>, 0).valor = -40

\* Two samples of 9.75 degrees against the reference 4.75 degrees: the call
\* has returned -5 degrees and set it.
C11_Witness ==
    /\ cal_retorno = [estado |-> "valor", valor |-> -40]
    /\ offset_calibracion = [definido |-> TRUE, valor |-> -40]
    /\ cal_angulos = <<39, 39>>
    /\ cal_real = 19

\* C12: a call of calibrar_rapido that ends without a sample, or that is
\* cancelled, returns None and leaves the offset as it was; while the call
\* runs the offset only changes on the step that returns a value.
C12_SinMuestras ==
    [][ /\ EnCalibracion /\ offset_calibracion' # offset_calibracion
             => cal_retorno'.estado = "valor"
        /\ ( /\ cal_retorno.estado = "sin" /\ cal_retorno'.estado # "sin"
             /\ cal_angulos = << >> \/ cal_cancelada' )
             => /\ cal_retorno' = RetornoNone
                /\ offset_calibracion' = offset_calibracion ]_vars

\* A call without samples has returned None after an earlier call had set a
\* non-zero offset, which is still there.
C12_Witness ==
    /\ cal_retorno = RetornoNone
    /\ ~cal_cancelada
    /\ cal_angulos = << >>
    /\ offset_calibracion.definido
    /\ offset_calibracion.valor # 0

\* The pure functions, each applied once to a drawn input.
\* The row of one candidate angle in the DOA's delay table and, where the
\* beamformer has a row for the same angle (whole degrees), that row before
\* its normalization.
EvalDelaysPrecalculados ==
    /\ f_res.op = "ninguna"
    /\ \E q \in 0 .. NumAngulos - 1 :
         f_res' = [op |-> "delays_precalculados", angulo |-> q,
                   doa |-> DelaysPrecalculados(q),
                   bf |-> IF q % 4 = 0
                          THEN << DelaysSinNormalizar(q \div 4) >>
                          ELSE << >>]
    /\ UNCHANGED todoMenosFres

NextFunciones ==
    \/ EvalErrorAngular
    \/ EvalDelaysPrecalculados
    \/ EvalDelays
    \/ EvalApplyBeamforming
    \/ EvalIndicesBusqueda
    \/ EvalBeamformedSignal

SpecFunciones == Init /\ [][NextFunciones]_vars

\* The DOA search on the block of a synthesized plane wave.
NextOndaPlana ==
    \/ OndaLlega
    \/ PotenciaGruesa
    \/ FinGrueso
    \/ PotenciaFina
    \/ PublicarOnda

SpecOndaPlana == Init /\ [][NextOndaPlana]_vars

\* C13 as stated: for every estimate in [0, 360) and every reference the
\* error lies in (-180, 180] and is congruent to estimate - reference
\* modulo 360.
C13_ErrorSemiabiertoArriba ==
    f_res.op = "error_angular"
        => /\ -MediaVuelta < f_res.sal /\ f_res.sal <= MediaVuelta
           /\ (f_res.sal - (f_res.angulo - f_res.real)) % (2 * MediaVuelta) = 0

\* C13 amended: the error lies in [-180, 180) and is congruent to
\* estimate - reference modulo 360.
C13_ErrorEnvuelto ==
    f_res.op = "error_angular"
        => /\ -MediaVuelta <= f_res.sal /\ f_res.sal < MediaVuelta
           /\ (f_res.sal - (f_res.angulo - f_res.real)) % (2 * MediaVuelta) = 0

\* The estimate 180 degrees away from the reference: the error is -180.
C13_Witness ==
    /\ f_res.op = "error_angular"
    /\ f_res.angulo = 720 /\ f_res.real = 0
    /\ f_res.sal = -MediaVuelta

\* C14 as stated: for every angle the DOA can publish and every block
\* length, apply_beamforming returns exactly as many samples as the block.
C14_LongitudSiempre ==
    f_res.op = "apply_beamforming"
        => ~f_res.sal.error /\ f_res.sal.longitud = f_res.n

\* C14 amended: for every angle the DOA can publish and every block longer
\* than the 27 samples filtfilt pads with, apply_beamforming returns exactly
\* as many samples as the block, whatever the maximum delay of the angle.
C14_LongitudSalida ==
    f_res.op = "apply_beamforming" /\ f_res.n > PadLen
        => ~f_res.sal.error /\ f_res.sal.longitud = f_res.n

\* 359.75 degrees (row 0, maximum delay 3 samples) on a 256-sample block.
C14_Witness ==
    /\ f_res.op = "apply_beamforming"
    /\ f_res.angulo = NumAngulos - 1
    /\ f_res.n = 256
    /\ f_res.sal = [error |-> FALSE, longitud |-> 256]
    /\ MaxFila(DelaySamples(DelaysPrecalculated(0))) = 3

\* C15: in every row 0..359 of the beamformer's table the normalized delays
\* have minimum exactly 0, and so have their quantizations to samples, which
\* are all non-negative integers.
C15_DelaysNoNegativos ==
    f_res.op = "delays"
        => /\ MinFila(f_res.fila) = 0
           /\ MinFila(f_res.sal) = 0
           /\ \A mic \in Mics : f_res.sal[mic] \in Nat

\* Row 0: microphone 3 is the reference and microphone 1 is 3 samples late.
C15_Witness ==
    /\ f_res.op = "delays"
    /\ f_res.idx = 0
    /\ f_res.sal = <<3, 2, 0, 2>>

\* A step of get_angulo_actual: the call begins, or its second load ends it.
LecturaComienza ==
    /\ main_pila' # main_pila
    /\ main_pila' # << >>
    /\ Head(main_pila') = "leer_confianza"

LecturaAcaba ==
    /\ Esta("leer_confianza")
    /\ main_pila' = Tail(main_pila)

\* C16: calling get_angulo_actual again, with no block processed by the DOA
\* since the previous call, returns the same (angle, confidence) pair, and
\* no step of get_angulo_actual changes the estimator's angle, confidence,
\* search phase or coarse peak.
C16_LecturaRepetida ==
    [][ /\ (LecturaComienza \/ LecturaAcaba) =>
               <<angulo_actual, confianza, fase_gruesa, angulo_grueso>>' =
               <<angulo_actual, confianza, fase_gruesa, angulo_grueso>>
        /\ (LecturaAcaba /\ ultima_lectura.estado \in {"valida", "repetida"}) =>
               lectura' = ultima_lectura.par ]_vars

C16_Witness ==
    /\ ultima_lectura.estado = "repetida"
    /\ lectura = ultima_lectura.par
    /\ MayorQue(lectura[2], 0, 1)
    /\ lectura = <<angulo_actual, confianza>>

\* C18: the capture manager runs a single audio stream: whatever sequence of
\* iniciar_captura, pausar_captura, reanudar_captura and detener_captura is
\* called, at most one InputStream has been created and not yet closed
\* (iniciar_captura while recording returns early and creates none).
C18_UnSoloStream == streams_abiertos <= 1

\* A confident block publishes its angle: calcular_doa assigns
\* self.angulo_actual.
PublicaAngulo ==
    /\ cb_pc = "sub"
    /\ cb_pc' = "doa_conf"

\* The calibration offset in force, in eighths of a degree.
OffsetVigente ==
    IF offset_calibracion.definido THEN offset_calibracion.valor ELSE 0

\* C19: the angle the DOA publishes is the internally estimated angle plus
\* the calibration offset in force, modulo 360 degrees, so every angle
\* published after a calibration that set a non-zero offset is shifted by it.
C19_OffsetAplicado ==
    [][ PublicaAngulo =>
          angulo_actual' * 2 =
              (cb_crudo' * 2 + OffsetVigente) % (NumAngulos * 2) ]_vars

\* C20: the raw angle of a confident block is pushed into a bounded FIFO
\* history and the median of the history is published, so a single raw
\* angle that differs from the equal ones before it does not change the
\* published angle.
C20_MedianaPublicada ==
    [][ (PublicaAngulo /\ hist_iguales = 2) =>
            angulo_actual' = angulo_actual ]_vars

\* Distance between two angles around the circle, in quarter degrees
DistanciaCircular(a, b) == Min((a - b) % NumAngulos, (b - a) % NumAngulos)

\* C17: a noise-free plane-wave block synthesized for the angle theta0 with
\* the delay -(position . direction(theta0)) / sound_speed per microphone,
\* fed to the DOA from its initial state, publishes an angle within one
\* angular-resolution step of theta0 with confidence above 0.5.
C17_IdaYVuelta ==
    f_res.op = "onda_plana" =>
        /\ DistanciaCircular(f_res.sal[1], f_res.theta0) <= 1
        /\ MayorQue(f_res.sal[2], 5, 10)

\* The last block ran the coarse loop over all 360 degrees.
GruesaEjecutada == IndicesGruesos \subseteq cb_indices

\* The estimator is in fine-only search: the last block did not run the
\* coarse loop and the next one will not either.
FinoSolo == fase_gruesa /\ ~GruesaEjecutada

\* C21: the estimator never stays locked in fine-only search: while active
\* blocks keep arriving (the randomized restart being fair), from a state
\* with fase_gruesa True a coarse search over all 360 degrees is eventually
\* executed again; and a fine search is only executed around a coarse peak
\* computed since fase_gruesa was last reset.
C21_SinBloqueoFino ==
    /\ ([]<><<BloqueActivo>>_vars) => (FinoSolo ~> GruesaEjecutada)
    /\ [][ (BloqueActivo /\ IndicesBusqueda(angulo_grueso') \subseteq cb_indices')
             => \/ GruesaEjecutada'
                \/ fase_gruesa /\ angulo_grueso' = angulo_grueso ]_vars

\* The capture thread runs DOA.recibir_audio up to its first visible write.
PasoDoa ==
    /\ cb_pc = "sub"
    /\ suscriptores[cb_i] = "DOA"
    /\ <<cb_pc, cb_i>>' # <<cb_pc, cb_i>>

\* The confidence the block in flight publishes: already written, or
\* waiting for the second write of the confident branch.
ConfianzaDelBloque == IF cb_pc = "doa_conf" THEN cb_conf ELSE confianza

\* C22: when the maximum power of the coarse or of the fine search is below
\* the floor, the block leaves the published angle as it was, publishes a
\* confidence not greater than before (smaller when it was positive) and
\* leaves fase_gruesa False, so the next active block starts with the coarse
\* search.
C22_SinFuente ==
    [][ /\ (PasoDoa /\ cb_piso') =>
              /\ angulo_actual' = angulo_actual
              /\ ~fase_gruesa'
              /\ MenorIgual(ConfianzaDelBloque', confianza)
              /\ MayorQue(confianza, 0, 1) =>
                     ~MenorIgual(confianza, ConfianzaDelBloque')
        /\ (cb_pc = "doa_conf" /\ cb_pc' # "doa_conf") =>
              /\ confianza' = cb_conf
              /\ <<angulo_actual, fase_gruesa>>' = <<angulo_actual, fase_gruesa>>
        /\ (~fase_gruesa /\ fase_gruesa') =>
              PasoDoa /\ IndicesGruesos \subseteq cb_indices'
        /\ (PasoDoa /\ doa_is_active /\ ~fase_gruesa
               /\ cb_bloque.rms > UmbralRms) =>
              \/ IndicesGruesos \subseteq cb_indices'
              \/ cb_indices' = {IdxGrueso(0)} ]_vars

\* A block below the floor has been processed while the published
\* confidence was positive, and has left a smaller positive one (0.5 * 0.8
\* or 0.5 * 0.7).
C22_Witness ==
    /\ cb_piso
    /\ cb_doa_hecho
    /\ ~fase_gruesa
    /\ MayorQue(confianza, 0, 1)
    /\ ~MayorQue(confianza, 4, 10)

\* The full-resolution candidates from 10 degrees below g up to 10 degrees
\* above it, taken round the circle.
VentanaCircular(g) ==
    { q % NumAngulos :
        q \in ((g - VentanaFina) * ResolucionInv) ..
              ((g + VentanaFina) * ResolucionInv - 1) }

\* C23: for every coarse peak g the fine search evaluates every
\* full-resolution candidate within 10 degrees of g on either side, measured
\* round the circle, so the candidates across the 0/360 boundary are among
\* them.
C23_VentanaCircular ==
    f_res.op = "indices_busqueda" => VentanaCircular(f_res.g) \subseteq f_res.sal

\* C24: every output sample of apply_beamforming is the sum of the aligned
\* channel samples at its index divided by the number of channels that hold
\* a sample there, not by the constant 4.
C24_DivisorPorIndice ==
    f_res.op = "beamformed_signal" =>
        \A k \in DOMAIN f_res.sal :
            f_res.sal[k].suma * f_res.sal[k].contribuyen
                = f_res.sal[k].suma * f_res.sal[k].divisor


\* The number of saved recordings that hold the signal s.
VecesGuardado(s) ==
    Cardinality({ i \in DOMAIN archivos :
                    \E j \in DOMAIN archivos[i] : archivos[i][j] = s })

\* The signal s is still in the accumulation.
EnAcumulacion(s) ==
    \E j \in DOMAIN full_beamformed_audio : full_beamformed_audio[j] = s

\* C25: under any interleaving of guardar_audio_beamformed with
\* BeamformingSystem.recibir_audio, every block that was appended to
\* full_beamformed_audio is written in exactly one saved recording or is
\* still in the accumulation.
C25_SinPerdida ==
    \A s \in agregados :
        /\ VecesGuardado(s) <= 1
        /\ VecesGuardado(s) = 1 \/ EnAcumulacion(s)


\* delay(theta, m) = -(position[m] . direction(theta)) / sound_speed for the
\* angle of q quarter degrees, times sound_speed.
DelayModelo(mic, q) ==
    -(Radio * (PosicionesMic[mic][1] * CosCenti(q * 25)
               + PosicionesMic[mic][2] * SinCenti(q * 25)))

\* C26: for every candidate angle and microphone, the DOA table and the
\* beamformer table before its row normalization both hold
\* -(position[m] . direction(theta)) / sound_speed.
C26_UnModeloDeRetardo ==
    f_res.op = "delays_precalculados" =>
        \A mic \in Mics :
            /\ f_res.doa[mic] = DelayModelo(mic, f_res.angulo)
            /\ \A i \in DOMAIN f_res.bf :
                 f_res.bf[i][mic] = DelayModelo(mic, f_res.angulo)


\* calibrar_rapido is collecting samples: its loop has not ended.
Recolectando == \E i \in DOMAIN main_pila : main_pila[i] = "cal_bucle"

\* C27: whenever calibrar_rapido is collecting samples, in the startup
\* calibration of iniciar_sistema as well as in menu_calibracion, the capture
\* is running and the DOA estimator is active.
C27_CalibraConDoaActivo ==
    Recolectando => is_recording /\ doa_is_active


\* C28: from construction on, and after any sequence of calibrations, failed
\* calibrations and resets, self.doa.offset_calibracion is defined, so that
\* the reads of estado_sistema and of option 3 of menu_calibracion cannot
\* fail.
C28_OffsetDefinido == offset_calibracion.definido


\* The capture thread is inside the for loop of audio_callback_central.
EnDespacho == cb_pc \notin {"idle", "fin"}

\* The subscribers called so far in the dispatch in flight, in call order.
LlamadosEnOrden == [i \in DOMAIN cb_invocados |-> cb_invocados[i].sus]

\* C29: a block dispatched while is_recording is true calls each subscriber
\* registered when the dispatch began exactly once, in registration order and
\* each with a copy of its own; a block that arrives while is_recording is
\* false calls nobody; and the subscriber list does not change while a
\* dispatch is in progress.
C29_DespachoExclusivo ==
    /\ Len(cb_invocados) <= Len(cb_registrados)
    /\ LlamadosEnOrden = SubSeq(cb_registrados, 1, Len(cb_invocados))
    /\ \A i, j \in DOMAIN cb_invocados :
           cb_invocados[i].copia = cb_invocados[j].copia => i = j
    /\ cb_pc = "fin" /\ cb_despachado => LlamadosEnOrden = cb_registrados
    /\ cb_pc # "idle" /\ ~cb_despachado => cb_invocados = << >>
    /\ EnDespacho => suscriptores = cb_registrados

\* A dispatch has called every one of at least three registered subscribers
\* after the list was changed from the one of construction, and one of them
\* raised.
C29_Witness ==
    /\ cb_pc = "fin"
    /\ cb_despachado
    /\ Len(cb_invocados) >= 3
    /\ cb_registrados # Suscriptores0
    /\ cb_excepciones # {}


\* C30: after any sequence of iniciar_captura, pausar_captura,
\* cambiar_blocksize, reanudar_captura and detener_captura, whenever
\* is_recording is true the blocksize reported by obtener_estado is the
\* blocksize of the stream that delivers the blocks.
C30_BlocksizeDelStream ==
    is_recording /\ stream = "activo" => blocksize = stream_blocksize

=============================================================================
